---- MODULE Spec2Model ----
(***************************************************************************)
(* A model of the raspi-alarm device loop (alarm/loop.py) and of its       *)
(* hardware helpers (alarm/control.py): the menu state machine driven by   *)
(* four buttons, the alarm trigger and its 15 minute auto-stop, and the    *)
(* buzzer with its melody and beep tasks that run on their own threads,    *)
(* the display driver with the transfers it makes on its SPI bus, the      *)
(* debounced buttons, the sensor and weather pollers whose readings the    *)
(* loop copies under non-blocking locks, and the screen reset and frame    *)
(* push of every tick.                                                     *)
(*                                                                         *)
(* The render loop is modelled one block at a time (loop_pc names the block *)
(* that runs next).  A tick begins with the poll of the buttons, which the *)
(* four button blocks then read.  The places where the loop waits for a    *)
(* thread (Thread.join), where it has released one lock of the drawing and *)
(* tries the next, where it sleeps inside a display call and where it has  *)
(* started a thread and not yet noted it are positions of their own, so    *)
(* that every step of a melody task, of a beep task or of a poller can     *)
(* fall between any two of them.  Every "with self._play_lock:" region is  *)
(* one atomic step.                                                        *)
(***************************************************************************)
EXTENDS Integers, Sequences, FiniteSets, TLC

VARIABLES
    \* alarm_loop locals (loop.py 77-89)
    loop_pc,                \* the block of alarm_loop that runs next
    state,                  \* MenuState
    cursor,                 \* cursor position, an int of the screen's CursorPos
    in_select_mode,
    alarm_time,             \* <<hour, minute, "AM"|"PM">>
    alarm_active,
    alarm_played_recently,
    song_start_time,        \* None or Some(clock reading)
    now,                    \* the last clock reading, in clock units since midnight
    dim,                    \* AlarmDisplay._dim
    \* main_buzzer and song_thread
    song_pc,                \* position of the play_melody task
    song_idx,               \* index of the note the for loop is at
    melody,                 \* melody.notes: a sequence of notes [pitch, duration]
    song_sleep,             \* the length of the sleep the melody task is in, or 0
    main_stop,              \* main_buzzer._stop
    main_tone,              \* what main_buzzer.tonal_buzzer sounds: None or Some(midi)
    song_orphans,           \* live melody tasks song_thread no longer refers to
    \* secondary_buzzer and beep_thread
    beep_pc,
    sec_stop,
    sec_tone,
    beep_orphans,           \* live beep tasks beep_thread no longer refers to
    \* a caller of AlarmBuzzer taken alone (SpecBuzzer)
    caller,
    \* the polls a caller of update_press taken alone has made (SpecButton)
    polls,
    \* CursorPos.clamp / CursorPos.wrap taken alone (SpecCursor)
    pos_cls, pos_arg, clamp_result, wrap_result,
    \* display: the SPI bus of the AlarmDisplay and the calls made on it
    disp_open,              \* the SPI and GPIO handles are open
    disp_op,                \* the last call made on the display
    disp_fresh,             \* no call was made on it since loop.py 98-99
    disp_raised,            \* the last call raised and sent nothing
    raw,                    \* the transfer of the last call, a direct exec_cmd / exec_data
    level_arg,              \* the argument of the last set_dim_level call
    image,                  \* the bitmap handed to write_image: its lit pixels <<x, y>>
    lit_value,              \* what getdata(0) lists for a lit pixel of that bitmap
    \* buttons (loop.py 108-113): AlarmButton.down and .just_pressed by name
    down, just_pressed,
    \* update_dht, update_weather and what the loop has copied (loop.py 67-73, 83-84)
    temp, hum, weather,
    dht_pc, dht_new,        \* update_dht: its position and the pair it is storing
    weather_pc, weather_new,
    my_temp, my_hum, my_weather,
    \* the screen reset and the frame push (loop.py 78, 383-398)
    has_reset_screen,
    tick_calls,             \* the display calls of the tick the loop is in, in order
    ticked,                 \* the loop has read the clock at least once
    first_of_minute,        \* the tick the loop is in read the clock first in its minute
    \* history of the run, no program state
    edits,                  \* alarm-time edits made so far
    edited_since_start,     \* the alarm time was edited since playback last started
    written                 \* the (temp, hum) pairs update_dht has stored

loopVars == <<loop_pc, state, cursor, in_select_mode, alarm_time, alarm_active,
              alarm_played_recently, song_start_time, now, dim>>
menuVars == <<state, cursor, in_select_mode>>
songVars == <<song_pc, song_idx, melody, main_stop, main_tone, song_orphans, song_sleep>>
beepVars == <<beep_pc, sec_stop, sec_tone, beep_orphans>>
cursorVars == <<pos_cls, pos_arg, clamp_result, wrap_result>>
historyVars == <<edits, edited_since_start>>
displayVars == <<disp_open, disp_op, disp_fresh, disp_raised, raw, level_arg, image,
                 lit_value>>
buttonVars == <<down, just_pressed, polls>>
envVars == <<temp, hum, weather, dht_pc, dht_new, weather_pc, weather_new,
             my_temp, my_hum, my_weather, written>>
renderVars == <<has_reset_screen, tick_calls, ticked, first_of_minute>>
\* the display, the environment and the rendering
sideVars == <<displayVars, envVars, renderVars>>
vars == <<loopVars, songVars, beepVars, caller, cursorVars, buttonVars, sideVars,
          historyVars>>

----------------------------------------------------------------------------
(* Bounds of the model *)

\* Clock units per wall-clock minute: the resolution at which readings differ.
UnitsPerMin == 2
\* The largest number of clock units between two consecutive clock readings.
MaxAdv == 2
\* The wall-clock minute (since midnight) at which the loop is started.
StartMinute == 599
\* Clock units of wall-clock time explored by Spec.
HorizonUnits == 2
\* Minutes of wall-clock time explored by SpecAuto.
HorizonAutoMin == 17
\* Alarm-time edits the user makes in a run.
MaxEdits == 2
\* Notes of a melody handed to play_melody in SpecBuzzer.
MaxNotes == 2
\* Arguments of clamp and wrap range over -MaxArg..MaxArg.
MaxArg == 12
\* Arguments of set_dim_level in SpecDisplay range over -MaxLevel..MaxLevel.
MaxLevel == 3
\* Lit pixels of a bitmap handed to write_image in SpecDisplay.
MaxLit == 2
\* Polls counted in SpecButton.
MaxPolls == 3

----------------------------------------------------------------------------
(* Optional values *)

None == <<>>
Some(x) == <<x>>
Get(o) == o[1]

(* MenuState (StrEnum, auto(): the lower-cased member names) *)
MAIN == "main"
SETTINGS == "settings"
SET_ALARM_TIME == "set_alarm_time"
MenuState == {MAIN, SETTINGS, SET_ALARM_TIME}

(* The members of the three cursor enumerations (loop.py 48-64) *)
Main_NO_SELECTION == 0
Main_SETTINGS == 1
Main_SET_ALARM_TIME == 2
MainPos == {Main_NO_SELECTION, Main_SETTINGS, Main_SET_ALARM_TIME}

Settings_SET_BRIGHTNESS == 0
Settings_DISPLAY_OFF == 1
Settings_BACK == 2
SettingsPos == {Settings_SET_BRIGHTNESS, Settings_DISPLAY_OFF, Settings_BACK}

AlarmTime_HOUR == 0
AlarmTime_MINUTE == 1
AlarmTime_AM_PM == 2
AlarmTime_BACK == 3
AlarmTimePos == {AlarmTime_HOUR, AlarmTime_MINUTE, AlarmTime_AM_PM, AlarmTime_BACK}

Members(cls) ==
    CASE cls = "MainPos" -> MainPos
      [] cls = "SettingsPos" -> SettingsPos
      [] cls = "AlarmTimePos" -> AlarmTimePos
PosClasses == {"MainPos", "SettingsPos", "AlarmTimePos"}

Max2(a, b) == IF a >= b THEN a ELSE b
Min2(a, b) == IF a <= b THEN a ELSE b

\* Python's % with a positive divisor: the result is in 0..n-1 (as TLA+'s %).
PyMod(a, n) == a % n

PosMax(cls) == CHOOSE m \in Members(cls) : \A v \in Members(cls) : v <= m
PosMin(cls) == CHOOSE m \in Members(cls) : \A v \in Members(cls) : m <= v

clamp(cls, value) == Max2(PosMin(cls), Min2(PosMax(cls), value))

wrap_trunc(cls, value) ==
    LET range_size == PosMax(cls) - PosMin(cls) + 1
        d == value - PosMin(cls)
        r == IF d >= 0 THEN d % range_size ELSE -((-d) % range_size)
    IN  r + PosMin(cls)
wrap(cls, value) ==
    LET range_size == PosMax(cls) - PosMin(cls) + 1
    IN  PyMod(value - PosMin(cls), range_size) + PosMin(cls)

pos_class(st) ==
    IF st = MAIN THEN "MainPos"
    ELSE IF st = SETTINGS THEN "SettingsPos" ELSE "AlarmTimePos"

----------------------------------------------------------------------------
(* The wall clock.  A clock reading is a number of clock units since        *)
(* midnight; hour, minute and am_pm are computed from it as loop.py 255-263 *)
(* computes them from datetime.now().                                       *)

MinuteOfDay(t) == (t \div UnitsPerMin) % 1440
Hour24(t) == MinuteOfDay(t) \div 60
Minute(t) == MinuteOfDay(t) % 60
AmPm(t) == IF Hour24(t) < 12 THEN "AM" ELSE "PM"
Hour12(t) == IF Hour24(t) % 12 = 0 THEN 12 ELSE Hour24(t) % 12
TimeFields(t) == <<Hour12(t), Minute(t), AmPm(t)>>

StartNow == StartMinute * UnitsPerMin
\* 15 * 60 seconds, in clock units
AutoStopUnits == 15 * UnitsPerMin

----------------------------------------------------------------------------
(* AlarmBuzzer (control.py 65-129) *)

SongAlive == song_pc \notin {"initial", "stopped"}
BeepAlive == beep_pc \notin {"initial", "stopped"}

\* AlarmBuzzer.stop() on main_buzzer
MainStop ==
    /\ main_tone' = None
    /\ main_stop' = TRUE

\* AlarmBuzzer.stop() on secondary_buzzer
SecStop ==
    /\ sec_tone' = None
    /\ sec_stop' = TRUE


----------------------------------------------------------------------------
(* AlarmDisplay (control.py 148-251) and COMMAND_DICT (control.py 14-36).  *)
(* A transfer is one spi.writebytes2 call: the level of the data/command   *)
(* line (dc) it is made with, the bytes written, and whether exec_cmd or   *)
(* exec_data made it.                                                      *)

WIDTH == 128
HEIGHT == 64
PAGES == HEIGHT \div 8

display_on == 175                \* 0xAF
display_off == 174               \* 0xAE
set_contrast == 129              \* 0x81
normal_display == 166            \* 0xA6
addressing_mode == 32            \* 0x20
column_addr == 33                \* 0x21
page_addr == 34                  \* 0x22
use_ram == 164                   \* 0xA4
multiplex_ratio == 168           \* 0xA8
display_offset == 211            \* 0xD3
start_line_0 == 64               \* 0x40
charge_pump == 141               \* 0x8D
pre_charge_period == 217         \* 0xD9
VCOMH_deselect_level == 219      \* 0xDB
segment_remap_mirror_x == 161    \* 0xA1
segment_remap_normal == 160      \* 0xA0
com_scan_dec == 200              \* 0xC8
com_scan_inc == 192              \* 0xC0
com_pins == 218                  \* 0xDA
osc_freq == 213                  \* 0xD5

\* bytes(n) with an int n: n zero bytes
bytes_of_size(n) == [i \in 1..n |-> 0]

\* exec_cmd: dc.off(), then the command byte and its arguments in one write
exec_cmd(cmd, args) == [by |-> "exec_cmd", dc |-> 0, bytes |-> <<cmd>> \o args]
\* exec_data: dc.on(), then the data in one write
exec_data(data) == [by |-> "exec_data", dc |-> 1, bytes |-> data]

\* white_screen and clear_screen
white_screen == exec_data([i \in 1..(WIDTH * PAGES) |-> 255])
clear_screen == exec_data([i \in 1..(WIDTH * PAGES) |-> 0])

\* AlarmDisplay.set_dim_level: the level it stores
set_dim_level_noclamp(level) == level
set_dim_level(level) == Max2(0, Min2(1, level))

\* AlarmDisplay.set_dim_level: the commands it sends for the stored level
set_dim_level_cmds(level) ==
    IF level = 0 THEN
        << exec_cmd(set_contrast, <<0>>),
           exec_cmd(pre_charge_period, <<17>>),
           exec_cmd(VCOMH_deselect_level, <<32>>) >>
    ELSE
        << exec_cmd(set_contrast, <<127>>),
           exec_cmd(pre_charge_period, <<241>>),
           exec_cmd(VCOMH_deselect_level, <<48>>) >>

\* set_dim_level as a step: the level stored, the commands sent being those
\* of the stored level.  On a closed display the level is stored too
\* (control.py 186) before the first exec_cmd raises.
SetDimLevel(level) ==
    /\ dim' = set_dim_level(level)
    /\ disp_op' = "set_dim_level"
    /\ disp_fresh' = FALSE
    /\ disp_raised' = ~disp_open
    /\ level_arg' = Some(level)
    /\ raw' = None
    /\ UNCHANGED <<disp_open, image, lit_value>>

\* What getdata(0) lists for a lit pixel of the bitmap handed to write_image:
\* 1, or 255 as the bytes of a converted mode "1" image hold it
LitValues == {1, 255}

\* The ink the loop draws time_img with, taken as what getdata(0) lists for
\* the pixels it lights
TimeInk == 1

\* pixel_data[x + y * WIDTH]: v for a lit pixel, else 0
Pixel(img, v, x, y) == IF <<x, y>> \in img THEN v ELSE 0

\* a | b on naturals
RECURSIVE BitOr(_, _)
BitOr(a, b) ==
    IF a = 0 THEN b
    ELSE IF b = 0 THEN a
    ELSE (IF a % 2 = 1 \/ b % 2 = 1 THEN 1 ELSE 0) + 2 * BitOr(a \div 2, b \div 2)

\* pixel << page_col: the bit of a page byte a row of the band goes to
BitShift(page_col) == page_col

\* buffer[x + p * WIDTH] through the for loop over page_col, from the value
\* byte it holds before row page_col of the band.  An item of a bytearray
\* takes 0..255 only: the assignment of a greater value raises ValueError,
\* and that value is returned to stand for it.
RECURSIVE BufferByteFrom(_, _, _, _, _, _)
BufferByteFrom(img, v, p, x, page_col, byte) ==
    IF page_col = 8 \/ byte > 255 THEN byte
    ELSE BufferByteFrom(img, v, p, x, page_col + 1,
                        BitOr(byte, Pixel(img, v, x, p * 8 + page_col)
                                       * 2 ^ BitShift(page_col)))
BufferByte(img, v, p, x) == BufferByteFrom(img, v, p, x, 0, 0)

\* The packing raises ValueError: some item is assigned more than 255.  An
\* item no lit pixel falls in stays 0, so the items of lit pixels decide.
PackRaises(img, v) ==
    \E px \in img : BufferByte(img, v, px[2] \div 8, px[1]) > 255

\* write_image for a bitmap of the panel's size whose packing does not
\* raise: the buffer and its transfer
write_image(img, v) ==
    exec_data([i \in 1..(WIDTH * PAGES) |->
                  BufferByte(img, v, (i - 1) \div WIDTH, (i - 1) % WIDTH)])

\* reinitialize: the commands after the reset pulse, with _dim at d
reinitialize(d) ==
    << exec_cmd(display_off, <<>>),
       exec_cmd(multiplex_ratio, <<63>>),
       exec_cmd(display_offset, <<0>>),
       exec_cmd(start_line_0, <<>>),
       exec_cmd(segment_remap_normal, <<>>),
       exec_cmd(com_scan_inc, <<>>),
       exec_cmd(com_pins, <<18>>),
       exec_cmd(use_ram, <<>>),
       exec_cmd(normal_display, <<>>),
       exec_cmd(osc_freq, <<128>>),
       exec_cmd(charge_pump, <<20>>) >>
    \o set_dim_level_cmds(set_dim_level(d))
    \o << exec_cmd(addressing_mode, <<0>>),
          exec_cmd(segment_remap_mirror_x, <<>>),
          exec_cmd(com_scan_dec, <<>>),
          exec_cmd(column_addr, <<0, WIDTH - 1>>),
          exec_cmd(page_addr, <<0, PAGES - 1>>),
          exec_cmd(display_on, <<>>) >>

\* close: its two commands; the argument of the second is bytes(0x10)
close == << exec_cmd(display_off, <<>>),
            exec_cmd(charge_pump, bytes_of_size(16)) >>

\* reinitialize as a step: the reset pulse and the commands, among them
\* those of set_dim_level(self._dim) (control.py 237).  On a closed display
\* it raises before that call.
Reinitialize ==
    /\ disp_op' = "reinitialize"
    /\ disp_fresh' = FALSE
    /\ disp_raised' = ~disp_open
    /\ level_arg' = IF disp_open THEN Some(dim) ELSE level_arg
    /\ raw' = None
    /\ UNCHANGED <<dim, disp_open, image, lit_value>>

\* A call that only sends: clear_screen, white_screen
SendOnly(name) ==
    /\ disp_op' = name
    /\ disp_fresh' = FALSE
    /\ disp_raised' = ~disp_open
    /\ raw' = None
    /\ UNCHANGED <<dim, disp_open, level_arg, image, lit_value>>

\* write_image as a step, handed the bitmap img whose lit pixels getdata(0)
\* lists as v: it raises from the packing (control.py 210) before anything
\* is sent, or from exec_data on a closed display
WriteImage(img, v) ==
    /\ disp_op' = "write_image"
    /\ disp_fresh' = FALSE
    /\ disp_raised' = (PackRaises(img, v) \/ ~disp_open)
    /\ raw' = None
    /\ image' = img
    /\ lit_value' = v
    /\ UNCHANGED <<dim, disp_open, level_arg>>

\* exec_cmd and exec_data called by the user of the display
ExecDirect(name, transfer) ==
    /\ disp_op' = name
    /\ disp_fresh' = FALSE
    /\ disp_raised' = ~disp_open
    /\ raw' = Some(transfer)
    /\ UNCHANGED <<dim, disp_open, level_arg, image, lit_value>>

\* close as a step: the commands, then the handles are closed; on a closed
\* display its first exec_cmd raises
Close ==
    /\ disp_open' = FALSE
    /\ disp_op' = "close"
    /\ disp_fresh' = FALSE
    /\ disp_raised' = ~disp_open
    /\ raw' = None
    /\ UNCHANGED <<level_arg, image, lit_value>>

\* The transfers the last step has made on the SPI bus, in order: each call
\* sends what its arguments and the stored level determine, and before the
\* first tick they are those of AlarmDisplay(25, 24) and of
\* display.clear_screen() (loop.py 98-99)
spi_out ==
    CASE disp_fresh -> reinitialize(0) \o <<clear_screen>>
      [] disp_raised -> <<>>
      [] disp_op \in {"exec_cmd", "exec_data"} -> <<Get(raw)>>
      [] disp_op = "set_dim_level" -> set_dim_level_cmds(dim)
      [] disp_op = "write_image" -> <<write_image(image, lit_value)>>
      [] disp_op = "clear_screen" -> <<clear_screen>>
      [] disp_op = "white_screen" -> <<white_screen>>
      [] disp_op = "reinitialize" -> reinitialize(dim)
      [] disp_op = "close" -> close

----------------------------------------------------------------------------
(* alarm_loop, one block at a time (loop.py 140-447) *)

\* The four AlarmButtons (loop.py 108-113)
Buttons == {"enable_alarm", "select", "right", "left"}

\* AlarmButton.update_press: just_pressed after a poll that reads the line
\* as active, the button having been down or not (control.py 56-60)
JustPressed_level(active, was_down) == active
JustPressed(active, was_down) == active /\ ~was_down

\* for b in buttons.values(): b.update_press() (loop.py 141-142);
\* lines[b] is b.button.is_active
UpdatePress(lines) ==
    /\ just_pressed' = [b \in Buttons |-> JustPressed(lines[b], down[b])]
    /\ down' = lines

\* "enable_alarm" block (loop.py 145-149); jp is the button's just_pressed
EnableHandler(jp) ==
    /\ loop_pc = "enable"
    /\ alarm_active' = IF jp THEN ~alarm_active ELSE alarm_active
    /\ IF jp /\ ~alarm_active' /\ SongAlive
         THEN MainStop /\ loop_pc' = "join_enable"
         ELSE loop_pc' = "select" /\ UNCHANGED <<main_stop, main_tone>>
    /\ UNCHANGED <<menuVars, alarm_time, alarm_played_recently, song_start_time, now,
                   dim, song_pc, song_idx, melody, song_orphans, song_sleep, beepVars, caller,
                   cursorVars, sideVars, historyVars>>

\* song_thread.join() returns when the melody task has ended
\* (loop.py 149, 154, 421, 451)
SongJoined_nowait == TRUE
SongJoined == ~SongAlive

\* song_thread.join() of the "enable_alarm" block (loop.py 149)
JoinEnable ==
    /\ loop_pc = "join_enable"
    /\ SongJoined
    /\ loop_pc' = "select"
    /\ UNCHANGED <<menuVars, alarm_time, alarm_active, alarm_played_recently,
                   song_start_time, now, dim, songVars, beepVars, caller, cursorVars,
                   buttonVars, sideVars, historyVars>>

\* The cursor a sub-screen is entered with (loop.py 165)
EnterCursor_keep(st) == cursor
EnterCursor(st) == PosMin(pos_class(st))

\* The cursor Main is returned to with (loop.py 172, 183)
BackCursor_keep == cursor
BackCursor == Main_NO_SELECTION

\* in_select_mode after a select press on an editable row (loop.py 177, 185)
ToggleSelect_set == TRUE
ToggleSelect == ~in_select_mode

\* The menu transition of a select press (loop.py 158-185): the new state,
\* cursor and in_select_mode, and menu_press.
SelectMenu ==
    IF state = MAIN THEN
        IF cursor # Main_NO_SELECTION THEN
            LET st == IF cursor = Main_SETTINGS THEN SETTINGS ELSE SET_ALARM_TIME
            IN  [state |-> st, cursor |-> EnterCursor(st),
                 in_select_mode |-> in_select_mode, menu_press |-> TRUE]
        ELSE [state |-> state, cursor |-> cursor,
              in_select_mode |-> in_select_mode, menu_press |-> FALSE]
    ELSE IF state = SETTINGS THEN
        IF cursor = Settings_BACK THEN
            [state |-> MAIN, cursor |-> BackCursor,
             in_select_mode |-> in_select_mode, menu_press |-> TRUE]
        ELSE IF cursor = Settings_SET_BRIGHTNESS \/ cursor = Settings_DISPLAY_OFF THEN
            [state |-> state, cursor |-> cursor,
             in_select_mode |-> ToggleSelect, menu_press |-> TRUE]
        ELSE [state |-> state, cursor |-> cursor,
              in_select_mode |-> in_select_mode, menu_press |-> TRUE]
    ELSE
        IF cursor = AlarmTime_BACK THEN
            [state |-> MAIN, cursor |-> BackCursor,
             in_select_mode |-> in_select_mode, menu_press |-> TRUE]
        ELSE [state |-> state, cursor |-> cursor,
              in_select_mode |-> ToggleSelect, menu_press |-> TRUE]

\* A select press dismisses a playing melody instead of reaching the menu
\* (loop.py 152)
SelectDismisses_never == FALSE
SelectDismisses == SongAlive

\* The poll at the top of a tick, then the "enable_alarm" block
\* (loop.py 141-149)
PollAndEnable(lines) ==
    /\ UpdatePress(lines)
    /\ UNCHANGED polls
    /\ EnableHandler(JustPressed(lines["enable_alarm"], down["enable_alarm"]))

\* "select" block (loop.py 151-197); jp is the button's just_pressed
SelectHandler(jp) ==
    /\ loop_pc = "select"
    /\ IF ~jp THEN
           /\ loop_pc' = "right"
           /\ UNCHANGED <<menuVars, main_stop, main_tone, beepVars>>
       ELSE IF SelectDismisses THEN
           /\ MainStop
           /\ loop_pc' = "join_select"
           /\ UNCHANGED <<menuVars, beepVars>>
       ELSE
           LET m == SelectMenu IN
           /\ state' = m.state
           /\ cursor' = m.cursor
           /\ in_select_mode' = m.in_select_mode
           /\ UNCHANGED <<main_stop, main_tone>>
           /\ IF ~m.menu_press THEN
                  /\ loop_pc' = "right"
                  /\ UNCHANGED beepVars
              ELSE IF beep_pc # "initial" THEN
                  \* secondary_buzzer.stop(), then beep_thread.join()
                  /\ SecStop
                  /\ loop_pc' = "join_beep"
                  /\ UNCHANGED <<beep_pc, beep_orphans>>
              ELSE
                  \* never started: stop, then a new thread is started
                  /\ SecStop
                  /\ beep_pc' = "started"
                  /\ loop_pc' = "right"
                  /\ UNCHANGED beep_orphans
    /\ UNCHANGED <<alarm_time, alarm_active, alarm_played_recently, song_start_time,
                   now, dim, song_pc, song_idx, melody, song_orphans, song_sleep, caller,
                   cursorVars, buttonVars, sideVars, historyVars>>

\* song_thread.join() of the "select" block (loop.py 154)
JoinSelect ==
    /\ loop_pc = "join_select"
    /\ SongJoined
    /\ loop_pc' = "right"
    /\ UNCHANGED <<menuVars, alarm_time, alarm_active, alarm_played_recently,
                   song_start_time, now, dim, songVars, beepVars, caller, cursorVars,
                   buttonVars, sideVars, historyVars>>

\* beep_thread.join() returns when the beep task has ended (loop.py 191)
BeepJoined_nowait == TRUE
BeepJoined == ~BeepAlive

\* beep_thread.join(), then the new beep thread is started (loop.py 191-197)
JoinBeep ==
    /\ loop_pc = "join_beep"
    /\ BeepJoined
    /\ beep_orphans' = beep_orphans + (IF BeepAlive THEN 1 ELSE 0)
    /\ beep_pc' = "started"
    /\ loop_pc' = "right"
    /\ UNCHANGED <<menuVars, alarm_time, alarm_active, alarm_played_recently,
                   song_start_time, now, dim, songVars, sec_stop, sec_tone, caller,
                   cursorVars, buttonVars, sideVars, historyVars>>

\* The hour after a step of d (loop.py 213-214, 240-241)
StepHour_nowrap(h, d) == PyMod(h + d, 12)
StepHour(h, d) == IF PyMod(h + d, 12) = 0 THEN 12 ELSE PyMod(h + d, 12)
\* The minute after a step of d (loop.py 217, 244)
StepMinute(m, d) == PyMod(m + d, 60)
\* The other meridiem (loop.py 223, 250)
FlipAmPm(a) == IF a = "AM" THEN "PM" ELSE "AM"

\* The alarm time after a right (d = 1) or left (d = -1) press in select mode
\* on the SetAlarmTime screen (loop.py 211-224, 238-251)
EditAlarmTime(d) ==
    IF cursor = AlarmTime_HOUR THEN
        <<StepHour(alarm_time[1], d), alarm_time[2], alarm_time[3]>>
    ELSE IF cursor = AlarmTime_MINUTE THEN
        <<alarm_time[1], StepMinute(alarm_time[2], d), alarm_time[3]>>
    ELSE IF cursor = AlarmTime_AM_PM THEN
        <<alarm_time[1], alarm_time[2], FlipAmPm(alarm_time[3])>>
    ELSE alarm_time

\* The level handed to set_dim_level by a right (d = 1) or left (d = -1)
\* press on the brightness row: get_dim_level() + 1 or - 1 (loop.py 207, 234)
DimStep_toggle(d) == 1 - dim
DimStep(d) == dim + d

\* The cursor after a right (d = 1) or left (d = -1) press outside select mode
\* (loop.py 200-204, 227-231)
MoveCursor_clamp(d) == clamp(pos_class(state), cursor + d)
MoveCursor(d) ==
    IF state = MAIN THEN wrap("MainPos", cursor + d)
    ELSE clamp(pos_class(state), cursor + d)

\* Right and left move the cursor only outside select mode (loop.py 200, 227)
CursorMoves_always == TRUE
CursorMoves == ~in_select_mode

\* "right" and "left" blocks (loop.py 199-251); d is +1 for right, -1 for
\* left and jp the button's just_pressed.  The alarm-time edits of a run are
\* counted.
ArrowHandler(jp, d, here, next) ==
    /\ loop_pc = here
    /\ loop_pc' = next
    /\ IF ~jp THEN
           UNCHANGED <<cursor, dim, alarm_time, historyVars, displayVars, tick_calls>>
       ELSE IF CursorMoves THEN
           /\ cursor' = MoveCursor(d)
           /\ UNCHANGED <<dim, alarm_time, historyVars, displayVars, tick_calls>>
       ELSE IF state = SETTINGS THEN
           IF cursor = Settings_SET_BRIGHTNESS THEN
               \* display.set_dim_level(display.get_dim_level() + d)
               /\ SetDimLevel(DimStep(d))
               /\ tick_calls' = Append(tick_calls, "set_dim_level")
               /\ UNCHANGED <<cursor, alarm_time, historyVars>>
           ELSE UNCHANGED <<cursor, dim, alarm_time, historyVars, displayVars,
                            tick_calls>>
       ELSE IF state = SET_ALARM_TIME /\ cursor # AlarmTime_BACK THEN
           /\ alarm_time' = EditAlarmTime(d)
           /\ edits' = edits + 1
           /\ edited_since_start' = TRUE
           /\ UNCHANGED <<cursor, dim, displayVars, tick_calls>>
       ELSE UNCHANGED <<cursor, dim, alarm_time, historyVars, displayVars, tick_calls>>
    /\ UNCHANGED <<state, in_select_mode, alarm_active, alarm_played_recently,
                   song_start_time, now, songVars, beepVars, caller, cursorVars,
                   buttonVars, envVars, has_reset_screen, ticked, first_of_minute>>

RightHandler(jp) == ArrowHandler(jp, 1, "right", "left")
LeftHandler(jp) == ArrowHandler(jp, -1, "left", "draw")

\* temp_hum_lock and weather_lock are held by their pollers inside the
\* "with" blocks (loop.py 461, 471)
temp_hum_lock_held == dht_pc \in {"locked", "half"}
weather_lock_held == weather_pc = "locked"

\* lock.acquire(blocking=False): true when the lock was free (loop.py 281, 290)
AcquireNonBlocking_ignore(held) == TRUE
AcquireNonBlocking(held) == ~held

\* The readings the Main screen draws (loop.py 280-292): each is copied when
\* its lock is acquired, else the copy of an earlier tick is drawn
DisplayTempHum ==
    IF state = MAIN /\ AcquireNonBlocking(temp_hum_lock_held)
      THEN my_temp' = temp /\ my_hum' = hum
      ELSE UNCHANGED <<my_temp, my_hum>>
DisplayWeather ==
    IF state = MAIN /\ AcquireNonBlocking(weather_lock_held)
      THEN my_weather' = weather
      ELSE UNCHANGED my_weather

\* The alarm trigger condition (loop.py 401-406) at clock reading t
AlarmDue(t) ==
    /\ alarm_active
    /\ TimeFields(t) = alarm_time
    /\ ~alarm_played_recently
    /\ state # SET_ALARM_TIME

\* A new melody thread is started only when none is alive (loop.py 407)
CanStartSong == ~SongAlive

\* The auto-stop condition (loop.py 419) at clock reading t
AutoStopDue_early(t) ==
    /\ song_start_time # None
    /\ t - Get(song_start_time) > 10 * UnitsPerMin
    /\ SongAlive
AutoStopDue(t) ==
    /\ song_start_time # None
    /\ t - Get(song_start_time) > AutoStopUnits
    /\ SongAlive

\* What the trigger does to alarm_played_recently when it fires (loop.py 414)
PlayedRecentlyAfterStart_unset == FALSE
PlayedRecentlyAfterStart == TRUE

\* SCREEN_RESET_INTERVAL_MIN (loop.py 16), in minutes
SCREEN_RESET_INTERVAL_MIN == 10

\* The screen is reset on a tick at clock reading t (loop.py 384)
ResetDue_always(t) == Minute(t) % SCREEN_RESET_INTERVAL_MIN = 0
ResetDue(t) == Minute(t) % SCREEN_RESET_INTERVAL_MIN = 0 /\ ~has_reset_screen

\* A blank frame is pushed instead of the composed one (loop.py 391-395)
DisplayOffSelected_cursor == state = SETTINGS /\ cursor = Settings_DISPLAY_OFF
DisplayOffSelected ==
    /\ state = SETTINGS
    /\ cursor = Settings_DISPLAY_OFF
    /\ in_select_mode

\* The call that pushes the frame (loop.py 391-398)
FramePush == IF DisplayOffSelected THEN "clear_screen" ELSE "write_image"

\* The wall-clock minute a clock reading falls in
MinuteIndex(t) == t \div UnitsPerMin

\* "Get Time" and "Draw Screen" up to the temperature and humidity (loop.py
\* 253-287); t is the reading of datetime.now().  Of the drawing the readings
\* it copies are followed.
ReadClockAndDraw(t) ==
    /\ loop_pc = "draw"
    /\ now' = t
    /\ DisplayTempHum
    /\ ticked' = TRUE
    /\ first_of_minute' = (~ticked \/ MinuteIndex(t) # MinuteIndex(now))
    /\ loop_pc' = "weather"
    /\ UNCHANGED <<menuVars, alarm_time, alarm_active, alarm_played_recently,
                   song_start_time, dim, songVars, beepVars, caller, cursorVars,
                   buttonVars, displayVars, has_reset_screen, tick_calls, historyVars,
                   temp, hum, weather, dht_pc, dht_new, weather_pc, weather_new,
                   written, my_weather>>

\* The rest of "Draw Screen", from the weather on (loop.py 289-381)
DrawWeather ==
    /\ loop_pc = "weather"
    /\ DisplayWeather
    /\ loop_pc' = "reset"
    /\ UNCHANGED <<menuVars, alarm_time, alarm_active, alarm_played_recently,
                   song_start_time, now, dim, songVars, beepVars, caller, cursorVars,
                   buttonVars, displayVars, renderVars, historyVars,
                   temp, hum, weather, dht_pc, dht_new, weather_pc, weather_new,
                   written, my_temp, my_hum>>

\* The screen reset (loop.py 383-388).  The loop is at this block while
\* reset() sleeps (control.py 214-220): nothing has been sent yet.
ScreenReset ==
    /\ loop_pc = "reset"
    /\ IF ResetDue(now) THEN
           /\ Reinitialize
           /\ tick_calls' = Append(tick_calls, "reinitialize")
           /\ has_reset_screen' = TRUE
       ELSE
           /\ has_reset_screen' = IF Minute(now) % SCREEN_RESET_INTERVAL_MIN # 0
                                     THEN FALSE ELSE has_reset_screen
           /\ UNCHANGED <<dim, displayVars, tick_calls>>
    /\ loop_pc' = "push"
    /\ UNCHANGED <<menuVars, alarm_time, alarm_active, alarm_played_recently,
                   song_start_time, now, songVars, beepVars, caller, cursorVars,
                   buttonVars, envVars, ticked, first_of_minute, historyVars>>

\* "Update Display" (loop.py 390-398); img is the bitmap the drawing has
\* composed in time_img with ink TimeInk
PushFrame(img) ==
    /\ loop_pc = "push"
    /\ IF DisplayOffSelected THEN SendOnly("clear_screen")
                             ELSE WriteImage(img, TimeInk)
    /\ tick_calls' = Append(tick_calls, FramePush)
    /\ loop_pc' = "alarm"
    /\ UNCHANGED <<menuVars, alarm_time, alarm_active, alarm_played_recently,
                   song_start_time, now, songVars, beepVars, caller, cursorVars,
                   buttonVars, envVars, has_reset_screen,
                   ticked, first_of_minute, historyVars>>

\* "Do alarm" (loop.py 400-421) up to song_thread.start() or to
\* main_buzzer.stop(); the clock reading it tests is the one of this tick
DoAlarm ==
    /\ loop_pc = "alarm"
    /\ IF AlarmDue(now) THEN
           /\ IF CanStartSong THEN
                  \* song_thread = Thread(...); song_thread.start()
                  /\ song_orphans' = song_orphans + (IF SongAlive THEN 1 ELSE 0)
                  /\ song_pc' = "started"
                  /\ song_idx' = 0
                  /\ edited_since_start' = FALSE
              ELSE UNCHANGED <<song_orphans, song_pc, song_idx, edited_since_start>>
           /\ loop_pc' = "mark"
           /\ UNCHANGED <<alarm_played_recently, main_stop, main_tone>>
       ELSE IF TimeFields(now) # alarm_time THEN
           /\ alarm_played_recently' = FALSE
           /\ IF AutoStopDue(now)
                THEN MainStop /\ loop_pc' = "join_auto"
                ELSE loop_pc' = "key" /\ UNCHANGED <<main_stop, main_tone>>
           /\ UNCHANGED <<song_orphans, song_pc, song_idx, edited_since_start>>
       ELSE
           /\ loop_pc' = "key"
           /\ UNCHANGED <<song_orphans, song_pc, song_idx, edited_since_start,
                          alarm_played_recently, main_stop, main_tone>>
    /\ UNCHANGED <<menuVars, alarm_time, alarm_active, song_start_time, now, dim,
                   melody, song_sleep, beepVars, caller, cursorVars, buttonVars,
                   sideVars, edits>>

\* alarm_played_recently = True; song_start_time = now (loop.py 414-415),
\* after the thread has been started
MarkPlayed ==
    /\ loop_pc = "mark"
    /\ alarm_played_recently' = PlayedRecentlyAfterStart
    /\ song_start_time' = Some(now)
    /\ loop_pc' = "key"
    /\ UNCHANGED <<menuVars, alarm_time, alarm_active, now, dim, songVars, beepVars,
                   caller, cursorVars, buttonVars, sideVars, historyVars>>

\* song_thread.join() of the auto-stop, then song_start_time = None
\* (loop.py 421-422)
JoinAuto ==
    /\ loop_pc = "join_auto"
    /\ SongJoined
    /\ song_start_time' = None
    /\ loop_pc' = "key"
    /\ UNCHANGED <<menuVars, alarm_time, alarm_active, alarm_played_recently, now,
                   dim, songVars, beepVars, caller, cursorVars, buttonVars, sideVars,
                   historyVars>>

\* The exit key and the end of the tick (loop.py 440-453); enter says that
\* getkey returned "\n".  Without it the tick ends and the next begins, no
\* display call made in it yet.  After the break a live melody task is
\* stopped and joined, then the display is closed.
KeyPhase(enter) ==
    /\ loop_pc = "key"
    /\ IF ~enter THEN
           /\ loop_pc' = "enable"
           /\ tick_calls' = <<>>
           /\ first_of_minute' = FALSE
           /\ UNCHANGED <<main_stop, main_tone, displayVars>>
       ELSE IF SongAlive THEN
           /\ MainStop
           /\ loop_pc' = "join_exit"
           /\ UNCHANGED <<displayVars, tick_calls, first_of_minute>>
       ELSE
           /\ loop_pc' = "exited"
           /\ Close
           /\ UNCHANGED <<main_stop, main_tone, tick_calls, first_of_minute>>
    /\ UNCHANGED <<has_reset_screen, ticked>>
    /\ UNCHANGED <<menuVars, alarm_time, alarm_active, alarm_played_recently,
                   song_start_time, now, dim, song_pc, song_idx, melody,
                   song_orphans, song_sleep, beepVars, caller, cursorVars, buttonVars,
                   envVars, historyVars>>

\* song_thread.join() after the loop, then display.close() (loop.py 451-453)
JoinExit ==
    /\ loop_pc = "join_exit"
    /\ SongJoined
    /\ loop_pc' = "exited"
    /\ Close
    /\ UNCHANGED <<menuVars, alarm_time, alarm_active, alarm_played_recently,
                   song_start_time, now, dim, songVars, beepVars, caller, cursorVars,
                   buttonVars, envVars, renderVars, historyVars>>

----------------------------------------------------------------------------
(* AlarmBuzzer.play_melody, the melody task (control.py 76-106).           *)
(* song_pc: "initial" (thread not started), "started" (before line 83),    *)
(* "note" (at the for statement, line 87), "loop" (back at while True,     *)
(* line 86, the notes exhausted), "held" (sleeping 80%, line 101), "gap"   *)
(* (sleeping 20%, line 106), "stopped" (returned).                         *)

songRest == <<loopVars, melody, song_orphans, beepVars, caller, cursorVars, buttonVars,
              sideVars, historyVars>>

\* with self._play_lock: self._stop = False (control.py 83-84), then the
\* first pass of the for loop begins
PMClear ==
    /\ song_pc = "started"
    /\ main_stop' = FALSE
    /\ song_pc' = "note"
    /\ song_idx' = 1
    /\ UNCHANGED <<main_tone, song_sleep, songRest>>

\* The range of TonalBuzzer(pin, mid_tone=Tone(1200), octaves=3), as MIDI
\* notes: three octaves below and above 1200 Hz (control.py 71)
MinToneMidi == 50
MaxToneMidi == 122

\* pitch.up(12) while below the range, then pitch.down(12) while above it
\* (control.py 93-97); p is a MIDI note
RECURSIVE OctavesUp(_)
OctavesUp(p) == IF p < MinToneMidi THEN OctavesUp(p + 12) ELSE p
RECURSIVE OctavesDown(_)
OctavesDown(p) == IF p > MaxToneMidi THEN OctavesDown(p - 12) ELSE p
Sounded(pitch) == Some(OctavesDown(OctavesUp(Get(pitch))))

\* The two sleeps of a note of duration d, in milliseconds: duration * 0.8
\* and duration * 0.2 (control.py 101, 106)
HoldTime_half(d) == (d * 5) \div 10
HoldTime(d) == (d * 8) \div 10
GapTime(d) == (d * 2) \div 10

\* for note in melody.notes, and the first locked region (control.py 87-100);
\* the task then sleeps (control.py 101)
PMNote ==
    /\ song_pc = "note"
    /\ IF song_idx > Len(melody) THEN
           \* the notes are exhausted: back to while True
           /\ song_pc' = "loop"
           /\ UNCHANGED <<song_idx, main_tone, song_sleep>>
       ELSE IF main_stop THEN
           /\ main_tone' = None
           /\ song_pc' = "stopped"
           /\ song_idx' = 0
           /\ UNCHANGED song_sleep
       ELSE
           /\ main_tone' = IF melody[song_idx].pitch # None
                             THEN Sounded(melody[song_idx].pitch) ELSE None
           /\ song_pc' = "held"
           /\ song_sleep' = HoldTime(melody[song_idx].duration)
           /\ UNCHANGED song_idx
    /\ UNCHANGED <<main_stop, songRest>>

\* while True: the for loop starts over (control.py 86-87)
PMLoop ==
    /\ song_pc = "loop"
    /\ song_pc' = "note"
    /\ song_idx' = 1
    /\ UNCHANGED <<main_stop, main_tone, song_sleep, songRest>>

\* After sleeping 80% of the duration, the second locked region
\* (control.py 101-105)
PMHeld ==
    /\ song_pc = "held"
    /\ main_tone' = None
    /\ IF main_stop THEN
           /\ song_pc' = "stopped"
           /\ song_idx' = 0
           /\ song_sleep' = 0
       ELSE
           /\ song_pc' = "gap"
           /\ song_sleep' = GapTime(melody[song_idx].duration)
           /\ UNCHANGED song_idx
    /\ UNCHANGED <<main_stop, songRest>>

\* After sleeping 20% of the duration, the next note (control.py 106, 87)
PMGap ==
    /\ song_pc = "gap"
    /\ song_pc' = "note"
    /\ song_idx' = song_idx + 1
    /\ song_sleep' = 0
    /\ UNCHANGED <<main_stop, main_tone, songRest>>

----------------------------------------------------------------------------
(* AlarmBuzzer.thread_play_beep, the beep task (control.py 108-124).       *)
(* beep_pc: "initial", "started" (before line 111), "poll" (at line 116),  *)
(* "final" (before self.stop(), line 124), "stopped".                      *)

beepRest == <<loopVars, songVars, beep_orphans, caller, cursorVars, buttonVars, sideVars,
              historyVars>>

\* The tone the loop beeps with (loop.py 133): A5
BeepTone == Some(81)

\* The first locked region (control.py 111-114)
BeepBegin ==
    /\ beep_pc = "started"
    /\ sec_stop' = FALSE
    /\ sec_tone' = BeepTone
    /\ beep_pc' = "poll"
    /\ UNCHANGED beepRest

\* One pass of the polling loop (control.py 115-123); elapsed says that
\* 200 ms have passed since the tone started
BeepPoll(elapsed) ==
    /\ beep_pc = "poll"
    /\ IF sec_stop THEN
           /\ sec_tone' = None
           /\ beep_pc' = "stopped"
       ELSE
           /\ beep_pc' = IF elapsed THEN "final" ELSE "poll"
           /\ UNCHANGED sec_tone
    /\ UNCHANGED <<sec_stop, beepRest>>

\* self.stop() at the end (control.py 124)
BeepFinal ==
    /\ beep_pc = "final"
    /\ SecStop
    /\ beep_pc' = "stopped"
    /\ UNCHANGED beepRest

----------------------------------------------------------------------------
(* The behaviours *)

\* The notes of the melody the loop plays (SOUND_PATH, loop.py 19): one
\* sounded note stands for the song
SoundNotes == <<[pitch |-> Some(76), duration |-> 500]>>

\* Pitches and melodies handed to play_melody
Pitches == {None, Some(40), Some(64)}
\* Note durations, in milliseconds
Durations == {200, 500}
Notes == [pitch : Pitches, duration : Durations]
Melodies == UNION {[1..n -> Notes] : n \in 0..MaxNotes}

\* display = AlarmDisplay(25, 24), whose __init__ sets _dim to 0 and ends with
\* reinitialize(), then display.clear_screen() (control.py 158-167,
\* loop.py 98-99): the handles are open, the last set_dim_level call is the
\* one reinitialize has made, the last call is clear_screen
InitDisplay ==
    /\ disp_open = TRUE
    /\ disp_op = "clear_screen"
    /\ disp_fresh = TRUE
    /\ disp_raised = FALSE
    /\ raw = None
    /\ level_arg = Some(0)
\* time_img as created (loop.py 101): no pixel lit
InitImageIdle == image = {} /\ lit_value = TimeInk

\* The display once ticks have run: the last call is the write_image of the
\* tick before, the level is the one of construction
InitDisplayRun ==
    /\ disp_open = TRUE
    /\ disp_op = "write_image"
    /\ disp_fresh = FALSE
    /\ disp_raised = FALSE
    /\ raw = None
    /\ level_arg = Some(0)

\* The four AlarmButtons as constructed (control.py 50-53, loop.py 108-113),
\* no poll made yet
InitButtons ==
    /\ down = [b \in Buttons |-> FALSE]
    /\ just_pressed = [b \in Buttons |-> FALSE]
    /\ polls = 0

\* The shared readings and the loop's copies (loop.py 71-73, 83-84), the
\* pollers before their first update
InitEnv ==
    /\ temp = 0
    /\ hum = 0
    /\ weather = None
    /\ dht_pc = "idle"
    /\ dht_new = <<0, 0>>
    /\ weather_pc = "idle"
    /\ weather_new = None
    /\ my_temp = 0
    /\ my_hum = 0
    /\ my_weather = None
    /\ written = {<<0, 0>>}

\* has_reset_screen = False (loop.py 78), no tick made yet
InitRender ==
    /\ has_reset_screen = FALSE
    /\ tick_calls = <<>>
    /\ ticked = FALSE
    /\ first_of_minute = FALSE

\* The flags of the screen reset once ticks have run, the last of them at
\* the reading t: the flag is set exactly in a reset minute (loop.py 384-388)
InitRenderRun(t) ==
    /\ has_reset_screen = (Minute(t) % SCREEN_RESET_INTERVAL_MIN = 0)
    /\ tick_calls = <<>>
    /\ ticked = TRUE
    /\ first_of_minute = FALSE

\* alarm_time = (10, 00, "AM") (loop.py 89)
DefaultAlarmTime == <<10, 0, "AM">>

\* The locals of alarm_loop, the buzzers, the buttons and the readings
\* before a tick: screen st, cursor at cur, alarm time at, the beep task at
\* bpc, the clock reading t
InitLoopLocals(st, cur, at, bpc, t) ==
    /\ loop_pc = "enable"
    /\ state = st
    /\ cursor = cur
    /\ in_select_mode = FALSE
    /\ alarm_time = at
    /\ alarm_active = TRUE
    /\ alarm_played_recently = FALSE
    /\ song_start_time = None
    /\ now = t
    /\ dim = 0
    /\ song_pc = "initial"
    /\ song_idx = 0
    /\ main_stop = TRUE
    /\ main_tone = None
    /\ song_orphans = 0
    /\ beep_pc = bpc
    /\ sec_stop = TRUE
    /\ sec_tone = None
    /\ caller = "idle"
    /\ edits = 0
    /\ edited_since_start = FALSE
    /\ song_sleep = 0
    /\ beep_orphans = 0
    /\ InitButtons
    /\ InitEnv

\* alarm_loop before its first tick when the program is started at the
\* clock reading t
InitLoopAt(t) ==
    /\ InitLoopLocals(MAIN, Main_NO_SELECTION, DefaultAlarmTime, "initial", t)
    /\ InitDisplay
    /\ InitRender

\* alarm_loop between two ticks of a run in which presses have led to
\* screen st with the alarm time at, the beep of the last press ended
\* (control.py 124), no melody started and the last clock reading StartNow
InitLoopRun(st, cur, at) ==
    /\ InitLoopLocals(st, cur, at, "stopped", StartNow)
    /\ InitDisplayRun
    /\ InitRenderRun(StartNow)

\* The state alarm_loop is in before its first tick (loop.py 77-138), with
\* the buzzers as AlarmBuzzer.__init__ leaves them (control.py 70-74)
InitLoop == InitLoopAt(StartNow)

InitCursorIdle ==
    /\ pos_cls = "MainPos"
    /\ pos_arg = 0
    /\ clamp_result = None
    /\ wrap_result = None

Init ==
    /\ InitLoop
    /\ melody = SoundNotes
    /\ InitCursorIdle
    /\ InitImageIdle

\* Levels of the four input lines at a poll: any, none active, at most one
\* active
AllLines == [Buttons -> BOOLEAN]
NoLines == [b \in Buttons |-> FALSE]
OneLine == {l \in AllLines : Cardinality({b \in Buttons : l[b]}) <= 1}

\* A right or left press found by the poll of this tick would edit the alarm
\* time (loop.py 205, 211, 232, 238)
EditPending == in_select_mode /\ state = SET_ALARM_TIME /\ cursor # AlarmTime_BACK

\* The levels a poll reads when the buttons in B are tapped one at a time: at
\* most one line is active, of a button in B that was up at the poll before;
\* the user makes at most MaxEdits alarm-time edits in a run
TapLines(B) ==
    {l \in OneLine :
        \A b \in Buttons :
            l[b] => /\ b \in B
                    /\ ~down[b]
                    /\ (b \in {"right", "left"} /\ EditPending) => edits < MaxEdits}

\* A tick begins: the poll, then the "enable_alarm" block
PollBlock(B) == \E lines \in TapLines(B) : PollAndEnable(lines)

\* Bitmaps the drawing composes in time_img (Pillow draws them from the
\* screen's text and icons): one with a lit pixel stands for them
LoopFrames == {{<<0, 0>>}}

\* The blocks of a tick of Spec: the poll while select and right are tapped,
\* the four button blocks reading what the poll has found, the clock read
\* within the explored window, and the exit key.  The window of Spec is
\* shorter than the fifteen minutes of the auto-stop, whose join (JoinAuto)
\* is a step of SpecAuto.
EnableBlock == PollBlock({"select", "right"})
SelectBlock == SelectHandler(just_pressed["select"])
RightBlock == RightHandler(just_pressed["right"])
LeftBlock == LeftHandler(just_pressed["left"])
DrawBlock ==
    \E t \in now..(now + MaxAdv) :
        /\ t <= StartNow + HorizonUnits
        /\ ReadClockAndDraw(t)
PushBlock == \E img \in LoopFrames : PushFrame(img)
KeyBlock == \E enter \in BOOLEAN : KeyPhase(enter)
BeepPollStep == \E elapsed \in BOOLEAN : BeepPoll(elapsed)

Next ==
    \/ EnableBlock
    \/ SelectBlock
    \/ JoinSelect
    \/ JoinBeep
    \/ RightBlock
    \/ LeftBlock
    \/ DrawBlock
    \/ DrawWeather
    \/ ScreenReset
    \/ PushBlock
    \/ DoAlarm
    \/ MarkPlayed
    \/ KeyBlock
    \/ JoinExit
    \/ PMClear
    \/ PMNote
    \/ PMLoop
    \/ PMHeld
    \/ PMGap
    \/ BeepBegin
    \/ BeepPollStep
    \/ BeepFinal

Spec == Init /\ [][Next]_vars

----------------------------------------------------------------------------
(* SpecAuto: the loop over seventeen minutes when the melody is never     *)
(* stopped by hand: no line is active at any poll and the exit key is left *)
(* alone.                                                                 *)

EnableBlockIdle == PollBlock({})
KeyIdle == KeyPhase(FALSE)
DrawBlockAuto ==
    \E t \in now..(now + MaxAdv) :
        /\ t <= StartNow + HorizonAutoMin * UnitsPerMin
        /\ ReadClockAndDraw(t)

NextAuto ==
    \/ EnableBlockIdle
    \/ SelectBlock
    \/ RightBlock
    \/ LeftBlock
    \/ DrawBlockAuto
    \/ DrawWeather
    \/ ScreenReset
    \/ PushBlock
    \/ DoAlarm
    \/ MarkPlayed
    \/ JoinAuto
    \/ KeyIdle
    \/ PMClear
    \/ PMNote
    \/ PMLoop
    \/ PMHeld
    \/ PMGap

SpecAuto == Init /\ [][NextAuto]_vars

----------------------------------------------------------------------------
(* SpecBuzzer: one AlarmBuzzer and a caller that starts play_melody on a   *)
(* thread when no melody task is alive and calls stop() at any time.       *)

InitBuzzer ==
    /\ InitLoop
    /\ melody \in Melodies
    /\ InitCursorIdle
    /\ InitImageIdle

\* Thread(target=buzzer.play_melody, args=(melody,)).start()
CallerStart ==
    /\ ~SongAlive
    /\ song_pc' = "started"
    /\ song_idx' = 0
    /\ caller' = "playing"
    /\ UNCHANGED <<loopVars, melody, main_stop, main_tone, song_orphans, song_sleep,
                   beepVars, cursorVars, buttonVars, sideVars, historyVars>>

\* buzzer.stop() (control.py 126-129)
CallerStop ==
    /\ MainStop
    /\ caller' = "stopped"
    /\ UNCHANGED <<loopVars, song_pc, song_idx, melody, song_orphans, song_sleep,
                   beepVars, cursorVars, buttonVars, sideVars, historyVars>>

NextBuzzer ==
    \/ CallerStart
    \/ CallerStop
    \/ PMClear
    \/ PMNote
    \/ PMLoop
    \/ PMHeld
    \/ PMGap

SpecBuzzer == InitBuzzer /\ [][NextBuzzer]_vars

----------------------------------------------------------------------------
(* SpecCursor: CursorPos.clamp and CursorPos.wrap on every enumeration and *)
(* every argument in -MaxArg..MaxArg.                                      *)

InitCursor ==
    /\ InitLoop
    /\ melody = SoundNotes
    /\ pos_cls \in PosClasses
    /\ pos_arg \in (0 - MaxArg)..MaxArg
    /\ clamp_result = None
    /\ wrap_result = None
    /\ InitImageIdle

CallClamp ==
    /\ clamp_result' = Some(clamp(pos_cls, pos_arg))
    /\ UNCHANGED <<loopVars, songVars, beepVars, caller, pos_cls, pos_arg,
                   wrap_result, buttonVars, sideVars, historyVars>>

CallWrap ==
    /\ wrap_result' = Some(wrap(pos_cls, pos_arg))
    /\ UNCHANGED <<loopVars, songVars, beepVars, caller, pos_cls, pos_arg,
                   clamp_result, buttonVars, sideVars, historyVars>>

NextCursor == CallClamp \/ CallWrap

SpecCursor == InitCursor /\ [][NextCursor]_vars

----------------------------------------------------------------------------
(* SpecEdit: the menu and the two buzzer tasks while select, right and     *)
(* left are tapped, the clock stays at its first reading and the exit key  *)
(* is left alone.                                                          *)

InitEdit == Init

EnableBlockEdit == PollBlock({"select", "right", "left"})

\* A clock read that returns the reading of the tick before
DrawBlockEdit == ReadClockAndDraw(now)

NextEdit ==
    \/ EnableBlockEdit
    \/ SelectBlock
    \/ JoinSelect
    \/ JoinBeep
    \/ RightBlock
    \/ LeftBlock
    \/ DrawBlockEdit
    \/ DrawWeather
    \/ ScreenReset
    \/ PushBlock
    \/ DoAlarm
    \/ MarkPlayed
    \/ KeyIdle
    \/ PMClear
    \/ PMNote
    \/ PMLoop
    \/ PMHeld
    \/ PMGap
    \/ BeepBegin
    \/ BeepPollStep
    \/ BeepFinal

SpecEdit == InitEdit /\ [][NextEdit]_vars

----------------------------------------------------------------------------
(* SpecCorner: as SpecEdit, the loop starting with the alarm time at an    *)
(* end of the hour and minute ranges, as earlier edits have left it.  No   *)
(* edit the bound allows brings the alarm time to the minute the clock     *)
(* shows, so no melody task is started.                                    *)

\* Alarm times at the ends of the hour and minute ranges
CornerAlarmTimes == {<<12, 59, "PM">>, <<1, 0, "AM">>}

\* The loop between two ticks with the alarm time at a corner
InitCorner ==
    /\ \E at \in CornerAlarmTimes :
          InitLoopRun(MAIN, Main_NO_SELECTION, at)
    /\ melody = SoundNotes
    /\ InitCursorIdle
    /\ image \in LoopFrames
    /\ lit_value = TimeInk

NextCorner ==
    \/ EnableBlockEdit
    \/ SelectBlock
    \/ JoinBeep
    \/ RightBlock
    \/ LeftBlock
    \/ DrawBlockEdit
    \/ DrawWeather
    \/ ScreenReset
    \/ PushBlock
    \/ DoAlarm
    \/ KeyIdle
    \/ BeepBegin
    \/ BeepPollStep
    \/ BeepFinal

SpecCorner == InitCorner /\ [][NextCorner]_vars

----------------------------------------------------------------------------
(* SpecArmed: the menu and the two buzzer tasks while enable_alarm, select *)
(* and right are tapped, the clock stays at its first reading and the exit *)
(* key is left alone.  The program is started in the minute of the        *)
(* default alarm time: the first tick starts the melody.                   *)

\* The first clock reading of the minute of DefaultAlarmTime, a morning hour
StartAtAlarm == (DefaultAlarmTime[1] * 60 + DefaultAlarmTime[2]) * UnitsPerMin

InitArmed ==
    /\ InitLoopAt(StartAtAlarm)
    /\ melody = SoundNotes
    /\ InitCursorIdle
    /\ InitImageIdle

EnableBlockArmed == PollBlock({"enable_alarm", "select", "right"})

NextArmed ==
    \/ EnableBlockArmed
    \/ JoinEnable
    \/ SelectBlock
    \/ JoinSelect
    \/ JoinBeep
    \/ RightBlock
    \/ LeftBlock
    \/ DrawBlockEdit
    \/ DrawWeather
    \/ ScreenReset
    \/ PushBlock
    \/ DoAlarm
    \/ MarkPlayed
    \/ KeyIdle
    \/ PMClear
    \/ PMNote
    \/ PMLoop
    \/ PMHeld
    \/ PMGap
    \/ BeepBegin
    \/ BeepPollStep
    \/ BeepFinal

SpecArmed == InitArmed /\ [][NextArmed]_vars

----------------------------------------------------------------------------
(* update_dht and update_weather, the poller threads (loop.py 456-473).    *)
(* dht_pc: "idle" (outside the with block), "locked" (lock taken, the new  *)
(* pair computed), "half" (temp stored, hum not yet).  weather_pc: "idle", *)
(* "locked".                                                               *)

\* round(c_to_f(t)) for a whole number of degrees Celsius: c * 9 / 5 + 32 to
\* the nearest integer (1.8 c never ends in .5)
c_to_f_rounded(c) == (18 * c + 5) \div 10 + 32

\* Readings (temperature, humidity) of the DHT11 and forecasts of the
\* weather service
Readings == {<<20, 40>>, <<25, 45>>}
Forecasts == {1, 2}

envRest == <<loopVars, songVars, beepVars, caller, cursorVars, displayVars, buttonVars,
             renderVars, historyVars>>

\* with temp_hum_lock: the right-hand side of the assignment (loop.py 461-462);
\* r is a reading with neither part None
DhtLock(r) ==
    /\ dht_pc = "idle"
    /\ ~temp_hum_lock_held
    /\ dht_pc' = "locked"
    /\ dht_new' = <<c_to_f_rounded(r[1]), r[2]>>
    /\ UNCHANGED <<temp, hum, weather, weather_pc, weather_new, my_temp, my_hum,
                   my_weather, written, envRest>>

\* temp is stored (loop.py 462)
DhtStoreTemp ==
    /\ dht_pc = "locked"
    /\ temp' = dht_new[1]
    /\ dht_pc' = "half"
    /\ UNCHANGED <<hum, weather, dht_new, weather_pc, weather_new, my_temp, my_hum,
                   my_weather, written, envRest>>

\* hum is stored and the lock released (loop.py 462)
DhtStoreHum ==
    /\ dht_pc = "half"
    /\ hum' = dht_new[2]
    /\ dht_pc' = "idle"
    /\ written' = written \cup {dht_new}
    /\ UNCHANGED <<temp, weather, dht_new, weather_pc, weather_new, my_temp, my_hum,
                   my_weather, envRest>>

\* with weather_lock (loop.py 471); w is a forecast, not None
WeatherLock(w) ==
    /\ weather_pc = "idle"
    /\ ~weather_lock_held
    /\ weather_pc' = "locked"
    /\ weather_new' = Some(w)
    /\ UNCHANGED <<temp, hum, weather, dht_pc, dht_new, my_temp, my_hum, my_weather,
                   written, envRest>>

\* weather is stored and the lock released (loop.py 472)
WeatherStore ==
    /\ weather_pc = "locked"
    /\ weather' = weather_new
    /\ weather_pc' = "idle"
    /\ UNCHANGED <<temp, hum, dht_pc, dht_new, weather_new, my_temp, my_hum,
                   my_weather, written, envRest>>

----------------------------------------------------------------------------
(* SpecEnv: the loop ticking with the two pollers, on Main or on Settings  *)
(* (entered by earlier presses, their beep ended), while no line is active *)
(* at any poll and the clock stays at its first reading.                   *)

InitEnvLoop ==
    /\ \/ InitLoop /\ InitImageIdle
       \/ /\ InitLoopRun(SETTINGS, Settings_SET_BRIGHTNESS, DefaultAlarmTime)
          /\ image \in LoopFrames
          /\ lit_value = TimeInk
    /\ melody = SoundNotes
    /\ InitCursorIdle

DhtUpdate == \E r \in Readings : DhtLock(r)
WeatherUpdate == \E w \in Forecasts : WeatherLock(w)

NextEnv ==
    \/ EnableBlockIdle
    \/ SelectBlock
    \/ RightBlock
    \/ LeftBlock
    \/ DrawBlockEdit
    \/ DrawWeather
    \/ ScreenReset
    \/ PushBlock
    \/ DoAlarm
    \/ KeyIdle
    \/ DhtUpdate
    \/ DhtStoreTemp
    \/ DhtStoreHum
    \/ WeatherUpdate
    \/ WeatherStore

SpecEnv == InitEnvLoop /\ [][NextEnv]_vars

----------------------------------------------------------------------------
(* SpecButton: the four AlarmButtons polled as the loop polls them at the  *)
(* top of every tick (loop.py 141-142), with any levels of the input       *)
(* lines, the first MaxPolls polls counted.                                *)

buttonRest == <<loopVars, songVars, beepVars, caller, cursorVars, sideVars, historyVars>>

PollButtons ==
    \E lines \in AllLines :
        /\ UpdatePress(lines)
        /\ polls' = Min2(polls + 1, MaxPolls)
        /\ UNCHANGED buttonRest

SpecButton == Init /\ [][PollButtons]_vars

----------------------------------------------------------------------------
(* SpecExit: the loop over seventeen minutes with the melody task, no      *)
(* line active at any poll, the exit key read on any tick.  Every step of  *)
(* the melody task and every join that can return is eventually taken, and *)
(* the loop keeps ticking.                                                 *)

\* The steps of the loop thread between its joins, in SpecExit
LoopStepsExit ==
    \/ EnableBlockIdle
    \/ SelectBlock
    \/ RightBlock
    \/ LeftBlock
    \/ DrawBlockAuto
    \/ DrawWeather
    \/ ScreenReset
    \/ PushBlock
    \/ DoAlarm
    \/ MarkPlayed
    \/ KeyBlock

NextExit ==
    \/ LoopStepsExit
    \/ JoinAuto
    \/ JoinExit
    \/ PMClear
    \/ PMNote
    \/ PMLoop
    \/ PMHeld
    \/ PMGap

FairExit ==
    /\ WF_vars(LoopStepsExit)
    /\ WF_vars(JoinAuto)
    /\ WF_vars(JoinExit)
    /\ WF_vars(PMClear)
    /\ WF_vars(PMNote)
    /\ WF_vars(PMLoop)
    /\ WF_vars(PMHeld)
    /\ WF_vars(PMGap)

SpecExit == Init /\ [][NextExit]_vars /\ FairExit

----------------------------------------------------------------------------
(* SpecJoin: the loop over seventeen minutes with the melody task, where   *)
(* enable_alarm may be pressed on any tick, select only to dismiss a       *)
(* melody that plays, and the exit key may be read on any tick.  Every     *)
(* step of the melody task and every join that can return is eventually    *)
(* taken, and the loop keeps ticking.                                      *)

\* A poll that finds at most one of enable_alarm and select active, select
\* only while a melody task is alive (loop.py 152)
EnableBlockJoin ==
    \E lines \in TapLines({"enable_alarm", "select"}) :
        /\ lines["select"] => SelectDismisses
        /\ PollAndEnable(lines)

\* The steps of the loop thread between its joins, in SpecJoin
LoopStepsJoin ==
    \/ EnableBlockJoin
    \/ SelectBlock
    \/ RightBlock
    \/ LeftBlock
    \/ DrawBlockAuto
    \/ DrawWeather
    \/ ScreenReset
    \/ PushBlock
    \/ DoAlarm
    \/ MarkPlayed
    \/ KeyBlock

NextJoin ==
    \/ LoopStepsJoin
    \/ JoinEnable
    \/ JoinSelect
    \/ JoinAuto
    \/ JoinExit
    \/ PMClear
    \/ PMNote
    \/ PMLoop
    \/ PMHeld
    \/ PMGap

FairJoin ==
    /\ WF_vars(LoopStepsJoin)
    /\ WF_vars(JoinEnable)
    /\ WF_vars(JoinSelect)
    /\ WF_vars(JoinAuto)
    /\ WF_vars(JoinExit)
    /\ WF_vars(PMClear)
    /\ WF_vars(PMNote)
    /\ WF_vars(PMLoop)
    /\ WF_vars(PMHeld)
    /\ WF_vars(PMGap)

SpecJoin == Init /\ [][NextJoin]_vars /\ FairJoin

----------------------------------------------------------------------------
(* SpecDisplay: one AlarmDisplay and a caller that makes any of its calls  *)
(* in any order, also after it has closed it.                              *)

\* Bitmaps of the panel's size with at most MaxLit lit pixels, at the
\* corners of the panel and on both sides of the first page boundary
SampleColumns == {0, WIDTH - 1}
SampleRows == {0, 7, 8, HEIGHT - 1}
Images == {img \in SUBSET (SampleColumns \X SampleRows) : Cardinality(img) <= MaxLit}

InitDisplayCalls ==
    /\ InitLoop
    /\ melody = SoundNotes
    /\ InitCursorIdle
    /\ image \in Images
    /\ lit_value \in LitValues

displayRest == <<loop_pc, menuVars, alarm_time, alarm_active, alarm_played_recently,
                 song_start_time, now, songVars, beepVars, caller, cursorVars,
                 buttonVars, envVars, renderVars, historyVars>>

\* exec_cmd called with a command of the table and no or three arguments
CallExecCmd ==
    /\ \E cmd \in {set_contrast, normal_display}, args \in {<<>>, <<1, 2, 3>>} :
          ExecDirect("exec_cmd", exec_cmd(cmd, args))
    /\ UNCHANGED displayRest

\* exec_data called with no or two bytes
CallExecData ==
    /\ \E data \in {<<>>, <<7, 7>>} : ExecDirect("exec_data", exec_data(data))
    /\ UNCHANGED displayRest

CallSetDimLevel ==
    /\ \E level \in (0 - MaxLevel)..MaxLevel : SetDimLevel(level)
    /\ UNCHANGED displayRest

CallWriteImage == WriteImage(image, lit_value) /\ UNCHANGED displayRest

CallClearScreen == SendOnly("clear_screen") /\ UNCHANGED displayRest

CallWhiteScreen == SendOnly("white_screen") /\ UNCHANGED displayRest

CallReinitialize == Reinitialize /\ UNCHANGED displayRest

CallClose == Close /\ UNCHANGED <<dim, displayRest>>

NextDisplay ==
    \/ CallExecCmd
    \/ CallExecData
    \/ CallSetDimLevel
    \/ CallWriteImage
    \/ CallClearScreen
    \/ CallWhiteScreen
    \/ CallReinitialize
    \/ CallClose

SpecDisplay == InitDisplayCalls /\ [][NextDisplay]_vars

----------------------------------------------------------------------------
(* The claims *)

\* The positions at which the loop waits in song_thread.join()
SongJoinPcs == {"join_enable", "join_select", "join_auto", "join_exit"}

\* A step that starts a melody task
StartsSong == song_pc' = "started" /\ song_pc # "started"

\* C1 (SpecBuzzer): once stop() has returned the buzzer is silent, and it
\* stays silent until the caller starts a new play.
C1_SilentAfterStop == caller = "stopped" => main_tone = None

\* C4 (SpecBuzzer): play_melody with an empty note sequence completes at
\* once: when its for loop has run out of notes the task has returned, it
\* does not go back to while True, and no tone sounds.
C4_EmptyMelodyCompletes ==
    (Len(melody) = 0 /\ song_pc \notin {"initial", "started", "note"})
        => (song_pc = "stopped" /\ main_tone = None)

\* C9 (SpecCursor): for every enumeration and every integer argument, clamp
\* returns a value in [min,max], the argument itself when that is in range,
\* and wrap returns a value in [min,max] congruent to the argument modulo the
\* size of the range.
C9_ClampWrapInRange ==
    LET lo == PosMin(pos_cls)
        hi == PosMax(pos_cls)
    IN  /\ clamp_result # None =>
              /\ Get(clamp_result) \in lo..hi
              /\ pos_arg \in lo..hi => Get(clamp_result) = pos_arg
        /\ wrap_result # None =>
              /\ Get(wrap_result) \in lo..hi
              /\ \E k \in (0 - MaxArg - 1)..(MaxArg + 1) :
                    Get(wrap_result) = pos_arg + k * (hi - lo + 1)

\* clamp and wrap have both been applied to an argument below the range
C9_Witness ==
    /\ clamp_result # None
    /\ wrap_result # None
    /\ pos_arg < PosMin(pos_cls) - (PosMax(pos_cls) - PosMin(pos_cls) + 1)

\* The sub-screen a select press on Main enters, and the cursor it enters with
SubScreenOf(c) == IF c = Main_SETTINGS THEN SETTINGS ELSE SET_ALARM_TIME
FirstRowOf(c) == IF c = Main_SETTINGS THEN Settings_SET_BRIGHTNESS ELSE AlarmTime_HOUR

\* C6 as stated: a select press while the menu is in Main with a cursor other
\* than NoSelection enters the corresponding sub-screen with the cursor at
\* that screen's first position.
C6_SelectEntersSubScreen ==
    [][(SelectHandler(TRUE) /\ state = MAIN /\ cursor # Main_NO_SELECTION)
         => (state' = SubScreenOf(cursor) /\ cursor' = FirstRowOf(cursor))]_vars

\* C6 as amended: a select press while no melody task is alive and the menu
\* is in Main with a cursor other than NoSelection enters the corresponding
\* sub-screen with the cursor at that screen's first position.
C6_SelectEntersSubScreenWhenQuiet ==
    [][(SelectHandler(TRUE) /\ ~SongAlive /\ state = MAIN
            /\ cursor # Main_NO_SELECTION)
         => (state' = SubScreenOf(cursor) /\ cursor' = FirstRowOf(cursor))]_vars

\* The select block has just entered Settings from Main
C6_Witness ==
    /\ loop_pc = "right"
    /\ state = SETTINGS
    /\ cursor = Settings_SET_BRIGHTNESS
    /\ beep_pc = "started"
    /\ ~in_select_mode

\* The menu is on a sub-screen with the cursor on Back
OnBack ==
    \/ state = SETTINGS /\ cursor = Settings_BACK
    \/ state = SET_ALARM_TIME /\ cursor = AlarmTime_BACK

\* C7 as stated: a select press in Settings or SetAlarmTime with the cursor
\* on Back returns the menu to Main with cursor NoSelection.
C7_SelectOnBackReturns ==
    [][(SelectHandler(TRUE) /\ OnBack)
         => (state' = MAIN /\ cursor' = Main_NO_SELECTION)]_vars

\* C7 as amended: a select press while no melody task is alive, in Settings
\* or SetAlarmTime with the cursor on Back, returns the menu to Main with
\* cursor NoSelection.
C7_SelectOnBackReturnsWhenQuiet ==
    [][(SelectHandler(TRUE) /\ ~SongAlive /\ OnBack)
         => (state' = MAIN /\ cursor' = Main_NO_SELECTION)]_vars

\* The select block has just returned to Main: a beep was already started on
\* entering the sub-screen, so the block stops it and waits for it
C7_Witness ==
    /\ loop_pc = "join_beep"
    /\ state = MAIN
    /\ cursor = Main_NO_SELECTION

\* The menu is on a sub-screen with the cursor on a row other than Back
OnEditableRow ==
    \/ state = SETTINGS /\ cursor \in {Settings_SET_BRIGHTNESS, Settings_DISPLAY_OFF}
    \/ state = SET_ALARM_TIME
         /\ cursor \in {AlarmTime_HOUR, AlarmTime_MINUTE, AlarmTime_AM_PM}

\* C8 as stated: a select press on a sub-screen row other than Back toggles
\* in_select_mode and leaves the menu state and the cursor unchanged.
C8_SelectTogglesSelectMode ==
    [][(SelectHandler(TRUE) /\ OnEditableRow)
         => (in_select_mode' = ~in_select_mode /\ UNCHANGED <<state, cursor>>)]_vars

\* C8 as amended: a select press while no melody task is alive, on a
\* sub-screen row other than Back, toggles in_select_mode and leaves the
\* menu state and the cursor unchanged.
C8_SelectTogglesSelectModeWhenQuiet ==
    [][(SelectHandler(TRUE) /\ ~SongAlive /\ OnEditableRow)
         => (in_select_mode' = ~in_select_mode /\ UNCHANGED <<state, cursor>>)]_vars

\* The select block has just switched select mode on, on the Minute row
C8_Witness ==
    /\ loop_pc = "join_beep"
    /\ state = SET_ALARM_TIME
    /\ cursor = AlarmTime_MINUTE
    /\ in_select_mode

\* The last row of a sub-screen
LastRowOf(st) == IF st = SETTINGS THEN Settings_BACK ELSE AlarmTime_BACK

\* The cursor one to the right and one to the left, as C10 describes them
RightOf(st, c) ==
    IF st = MAIN THEN
        CASE c = Main_NO_SELECTION -> Main_SETTINGS
          [] c = Main_SETTINGS -> Main_SET_ALARM_TIME
          [] c = Main_SET_ALARM_TIME -> Main_NO_SELECTION
    ELSE IF c = LastRowOf(st) THEN c ELSE c + 1
LeftOf(st, c) ==
    IF st = MAIN THEN
        CASE c = Main_NO_SELECTION -> Main_SET_ALARM_TIME
          [] c = Main_SETTINGS -> Main_NO_SELECTION
          [] c = Main_SET_ALARM_TIME -> Main_SETTINGS
    ELSE IF c = 0 THEN c ELSE c - 1

\* C10 (SpecEdit): outside select mode right and left move the cursor cyclically
\* on Main and by one, saturating at the first and last row, on the
\* sub-screens; the cursor is always a member of the active screen's
\* enumeration.
C10_CursorMoves ==
    /\ [](cursor \in Members(pos_class(state)))
    /\ [][(RightHandler(TRUE) /\ ~in_select_mode)
            => cursor' = RightOf(state, cursor)]_vars
    /\ [][(LeftHandler(TRUE) /\ ~in_select_mode)
            => cursor' = LeftOf(state, cursor)]_vars

\* A left press on Main has wrapped the cursor from NoSelection to
\* SetAlarmTime in the first tick
C10_Witness ==
    /\ loop_pc = "draw"
    /\ state = MAIN
    /\ cursor = Main_SET_ALARM_TIME
    /\ now = StartNow

\* The melody tasks that are alive on the main buzzer
AliveMelodyTasks == (IF SongAlive THEN 1 ELSE 0) + song_orphans

\* C5 (SpecJoin): at most one melody task is alive on the main buzzer; a task
\* that was asked to stop after it began to play is being joined by the loop,
\* so the loop starts no new one before the join has returned.
C5_OneMelodyTask ==
    /\ AliveMelodyTasks <= 1
    /\ (song_pc \in {"note", "loop", "held", "gap"} /\ main_stop)
          => loop_pc \in SongJoinPcs

\* The loop has asked a playing melody task to stop and waits for it
C5_Witness ==
    /\ loop_pc = "join_select"
    /\ song_pc = "held"
    /\ main_stop
    /\ AliveMelodyTasks = 1

\* The alarm block of a tick that is the first of a wall-clock minute equal
\* to the alarm time, with the alarm armed and the menu outside SetAlarmTime
FirstMatchingTick ==
    /\ loop_pc = "alarm"
    /\ loop_pc' # "alarm"
    /\ first_of_minute
    /\ TimeFields(now) = alarm_time
    /\ alarm_active
    /\ state # SET_ALARM_TIME

\* A start of playback in a wall-clock minute in which playback was started
\* before
SecondStartInMinute ==
    /\ StartsSong
    /\ song_start_time # None
    /\ MinuteIndex(Get(song_start_time)) = MinuteIndex(now)

\* C2 as stated: for any sequence of button events playback is started at
\* most once during a wall-clock minute that equals the alarm time, and it is
\* started on the first tick of that minute if the alarm is armed and the
\* menu is outside SetAlarmTime.
C2_StartsOncePerMinute ==
    /\ [][~SecondStartInMinute]_vars
    /\ [][FirstMatchingTick => StartsSong]_vars

\* C2 as amended: for any sequence of button events that does not edit the
\* alarm time between two starts, playback is started at most once during a
\* wall-clock minute that equals the alarm time, and it is started on the
\* first tick of that minute if the alarm is armed and the menu is outside
\* SetAlarmTime.
C2_StartsOncePerMinuteUnlessEdited ==
    /\ [][SecondStartInMinute => edited_since_start]_vars
    /\ [][FirstMatchingTick => StartsSong]_vars

\* Playback has been started by the first tick of the alarm minute and the
\* loop goes on ticking in that minute
C2_Witness ==
    /\ loop_pc = "draw"
    /\ song_start_time = Some(now)
    /\ TimeFields(now) = alarm_time
    /\ alarm_played_recently
    /\ SongAlive
    /\ edits = 0

\* C3 (SpecAuto): when playback started at T is never stopped by hand, the
\* alarm block of a tick stops the buzzer and goes to join the task exactly
\* when the tick's clock reading is more than 15 minutes after T, so on the
\* first such tick and never earlier; the loop goes on only when the task
\* has ended, and then has forgotten T.
C3_AutoStopAfterFifteenMinutes ==
    /\ [][(loop_pc = "alarm" /\ loop_pc' # "alarm" /\ SongAlive
             /\ song_start_time # None)
            => ((loop_pc' = "join_auto" /\ main_stop' /\ main_tone' = None)
                  <=> now - Get(song_start_time) > 15 * UnitsPerMin)]_vars
    /\ [][(loop_pc = "join_auto" /\ loop_pc' # "join_auto")
            => (~SongAlive /\ song_start_time' = None)]_vars

\* The auto-stop has been joined on a tick more than 15 minutes after the
\* start
C3_Witness ==
    /\ loop_pc = "key"
    /\ song_start_time = None
    /\ song_pc = "stopped"
    /\ now - StartNow > 15 * UnitsPerMin

\* The alarm-time fields one step to the right and to the left, as C11
\* describes them
HourRight(h) == IF h = 12 THEN 1 ELSE h + 1
HourLeft(h) == IF h = 1 THEN 12 ELSE h - 1
MinuteRight(m) == IF m = 59 THEN 0 ELSE m + 1
MinuteLeft(m) == IF m = 0 THEN 59 ELSE m - 1
OtherMeridiem(a) == IF a = "AM" THEN "PM" ELSE "AM"
AlarmTimeRight(c, at) ==
    CASE c = AlarmTime_HOUR -> <<HourRight(at[1]), at[2], at[3]>>
      [] c = AlarmTime_MINUTE -> <<at[1], MinuteRight(at[2]), at[3]>>
      [] c = AlarmTime_AM_PM -> <<at[1], at[2], OtherMeridiem(at[3])>>
AlarmTimeLeft(c, at) ==
    CASE c = AlarmTime_HOUR -> <<HourLeft(at[1]), at[2], at[3]>>
      [] c = AlarmTime_MINUTE -> <<at[1], MinuteLeft(at[2]), at[3]>>
      [] c = AlarmTime_AM_PM -> <<at[1], at[2], OtherMeridiem(at[3])>>

\* C11 (SpecCorner): in SetAlarmTime with in_select_mode true a right or left
\* press leaves the cursor unchanged and changes only the field under the
\* cursor: the hour steps cyclically within 1..12, the minute cyclically
\* within 0..59, the meridiem flips; the hour is always in 1..12 and the
\* minute in 0..59; and the alarm time changes in no other step.
C11_AlarmTimeEdits ==
    /\ [](alarm_time[1] \in 1..12 /\ alarm_time[2] \in 0..59
             /\ alarm_time[3] \in {"AM", "PM"})
    /\ [][(RightHandler(TRUE) /\ state = SET_ALARM_TIME /\ in_select_mode)
            => (cursor' = cursor /\ alarm_time' = AlarmTimeRight(cursor, alarm_time))]_vars
    /\ [][(LeftHandler(TRUE) /\ state = SET_ALARM_TIME /\ in_select_mode)
            => (cursor' = cursor /\ alarm_time' = AlarmTimeLeft(cursor, alarm_time))]_vars
    /\ [][alarm_time' # alarm_time
            => (loop_pc \in {"right", "left"} /\ state = SET_ALARM_TIME
                  /\ in_select_mode)]_vars

\* A left press on the Hour row has taken the hour from 1 to 12 and the next
\* left press on the Minute row the minute from 0 to 59
C11_Witness ==
    /\ state = SET_ALARM_TIME
    /\ cursor = AlarmTime_MINUTE
    /\ in_select_mode
    /\ alarm_time = <<12, 59, "AM">>
    /\ edits = 2
    /\ loop_pc = "draw"

\* A right or left press on the brightness row of Settings in select mode
BrightnessPress(press) ==
    /\ press
    /\ state = SETTINGS
    /\ cursor = Settings_SET_BRIGHTNESS
    /\ in_select_mode

\* C12 as stated: in Settings with the cursor on SetBrightness and
\* in_select_mode true, each right press and each left press toggles the
\* display brightness level between 0 and 1.
C12_BrightnessToggles ==
    /\ [][BrightnessPress(RightHandler(TRUE)) => dim' = 1 - dim]_vars
    /\ [][BrightnessPress(LeftHandler(TRUE)) => dim' = 1 - dim]_vars

\* C12 as amended: in Settings with the cursor on SetBrightness and
\* in_select_mode true, each right press sets the display brightness level
\* to 1 and each left press sets it to 0; the level is always 0 or 1.
C12_BrightnessSaturates ==
    /\ [](dim \in {0, 1})
    /\ [][BrightnessPress(RightHandler(TRUE)) => dim' = 1]_vars
    /\ [][BrightnessPress(LeftHandler(TRUE)) => dim' = 0]_vars

\* A right press on the brightness row has raised the level to 1 and the
\* menu is still on that row in select mode, where the next press acts
C12_Witness ==
    /\ state = SETTINGS
    /\ cursor = Settings_SET_BRIGHTNESS
    /\ in_select_mode
    /\ dim = 1
    /\ loop_pc = "right"

\* The beep tasks that are alive on the secondary buzzer
AliveBeepTasks == (IF BeepAlive THEN 1 ELSE 0) + beep_orphans

\* A step that starts a beep task
StartsBeep == beep_pc' = "started" /\ (beep_pc # "started" \/ beep_orphans' # beep_orphans)

\* C13 (SpecEdit): a select press that changes the menu state or toggles
\* select mode requests stop of the secondary buzzer and joins the beep task
\* started before, if any; the join returns only when that task has ended,
\* and then exactly one new beep task is started; a select press on Main
\* with the cursor on NoSelection starts none; beep tasks start in no other
\* step, and at most one is alive at any time.
C13_BeepRestarts ==
    /\ [](AliveBeepTasks <= 1)
    /\ [][(SelectHandler(TRUE) /\ menuVars' # menuVars)
            => /\ sec_stop' /\ sec_tone' = None
               /\ IF beep_pc = "initial"
                    THEN StartsBeep /\ loop_pc' = "right"
                    ELSE loop_pc' = "join_beep" /\ ~StartsBeep]_vars
    /\ [][(loop_pc = "join_beep" /\ loop_pc' # "join_beep")
            => (~BeepAlive /\ StartsBeep /\ beep_orphans' = beep_orphans)]_vars
    /\ [][(SelectHandler(TRUE) /\ state = MAIN /\ cursor = Main_NO_SELECTION)
            => (~StartsBeep /\ UNCHANGED beepVars)]_vars
    /\ [][StartsBeep => loop_pc \in {"select", "join_beep"}]_vars

\* The beep of the press that entered Settings has been stopped and joined
\* while it sounded, and the beep of the press that switched select mode on
\* has been started
C13_Witness ==
    /\ state = SETTINGS
    /\ in_select_mode
    /\ loop_pc = "right"
    /\ beep_pc = "started"
    /\ sec_stop
    /\ alarm_time = DefaultAlarmTime
    /\ AliveBeepTasks = 1

\* Bit b of a byte
BitOf(v, b) == (v \div 2 ^ b) % 2

\* The bitmap a wire buffer stands for under the inverse rule: the pixel at
\* column x, row y is bit y % 8 of byte (y \div 8) * WIDTH + x
Unpacked(wire) ==
    {px \in (0..(WIDTH - 1)) \X (0..(HEIGHT - 1)) :
        BitOf(wire[(px[2] \div 8) * WIDTH + px[1] + 1], px[2] % 8) = 1}

\* C14 (SpecDisplay): write_image on an open display transmits exactly
\* WIDTH*PAGES bytes in one data transfer; for every page p, column x and
\* bit b in 0..7, bit b of byte p*WIDTH+x equals the pixel at column x, row
\* p*8+b; and unpacking the wire buffer with the inverse rule gives back
\* the bitmap.
C14_WriteImagePacks ==
    (disp_op = "write_image" /\ disp_open) =>
        LET sent == spi_out IN
        /\ Len(sent) = 1
        /\ sent[1].by = "exec_data"
        /\ Len(sent[1].bytes) = WIDTH * PAGES
        /\ \A p \in 0..(PAGES - 1), x \in 0..(WIDTH - 1), b \in 0..7 :
              BitOf(sent[1].bytes[p * WIDTH + x + 1], b)
                 = (IF <<x, p * 8 + b>> \in image THEN 1 ELSE 0)
        /\ Unpacked(sent[1].bytes) = image

\* The command and argument bytes of the transfers of the last call
SentBytes == LET sent == spi_out IN [i \in 1..Len(sent) |-> sent[i].bytes]

\* C15 (SpecDisplay): set_dim_level clamps any integer to {0,1} and stores
\* the clamped level, so the stored level is always 0 or 1; it sends exactly
\* three commands, contrast (0x81), pre-charge period (0xD9) and VCOMH
\* deselect level (0xDB) in this order, with the arguments 0x00, 0x11, 0x20
\* for level 0 and 0x7F, 0xF1, 0x30 for level 1.  A call made after close()
\* stores the clamped level as well, then raises at its first command and
\* sends nothing.
C15_SetDimLevel ==
    /\ dim \in {0, 1}
    /\ disp_op = "set_dim_level" =>
          /\ dim = (IF Get(level_arg) <= 0 THEN 0 ELSE 1)
          /\ SentBytes = (IF disp_raised THEN <<>>
                          ELSE IF dim = 0
                            THEN << <<129, 0>>, <<217, 17>>, <<219, 32>> >>
                            ELSE << <<129, 127>>, <<217, 241>>, <<219, 48>> >>)
          /\ disp_raised => ~disp_open

\* set_dim_level has been called with an argument above the range and has
\* stored level 1
C15_Witness ==
    /\ disp_op = "set_dim_level"
    /\ disp_open
    /\ Get(level_arg) = MaxLevel
    /\ dim = 1
    /\ Len(spi_out) = 3

\* C19 (SpecDisplay): every transfer the calls of the driver make through
\* exec_cmd (those of construction, reinitialize, set_dim_level and close) is
\* one command byte followed by 0 to 2 argument bytes, sent with the
\* data/command line low; every pixel-data transfer is sent with the line
\* high.  What a caller hands to exec_cmd itself is not the driver's.
C19_CommandTransfers ==
    LET sent == spi_out IN
    \A i \in 1..Len(sent) :
        /\ (sent[i].by = "exec_cmd" /\ (disp_fresh \/ disp_op # "exec_cmd"))
              => (sent[i].dc = 0 /\ Len(sent[i].bytes) \in 1..3)
        /\ sent[i].by = "exec_data" => sent[i].dc = 1

\* C16 (SpecBuzzer): play_melody takes the notes in sequence order, one at a
\* time, and goes back to the first after the last; it returns only when
\* stop was requested.  While no stop is requested a note with a pitch
\* sounds during a sleep of 80% of its duration and a note without pitch is
\* silent during it; the buzzer is then silent during a sleep of the other
\* 20%.
C16_NotesInOrder ==
    /\ []((song_pc = "held" /\ ~main_stop)
            => /\ (main_tone # None) <=> (melody[song_idx].pitch # None)
               /\ song_sleep * 10 = melody[song_idx].duration * 8)
    /\ [](song_pc = "gap"
            => /\ main_tone = None
               /\ song_sleep * 10 = melody[song_idx].duration * 2)
    /\ [][(song_pc = "note" /\ song_pc' \in {"held", "loop"})
            => /\ song_idx' = song_idx
               /\ (song_pc' = "loop") <=> (song_idx = Len(melody) + 1)]_vars
    /\ [][song_pc = "held" => song_pc' \in {"held", "gap", "stopped"}]_vars
    /\ [][(song_pc = "gap" /\ song_pc' # "gap")
            => (song_pc' = "note" /\ song_idx' = song_idx + 1)]_vars
    /\ [][(song_pc = "loop" /\ song_pc' # "loop")
            => (song_pc' = "note" /\ song_idx' = 1)]_vars
    /\ [][(song_pc' = "stopped" /\ song_pc # "stopped") => main_stop]_vars

\* The second note of a two-note melody, a pitched note of 200 ms after a
\* rest, has sounded for 160 ms and the task sleeps the 40 ms after it
C16_Witness ==
    /\ Len(melody) = 2
    /\ melody[1].pitch = None
    /\ melody[2] = [pitch |-> Some(64), duration |-> 200]
    /\ song_pc = "gap"
    /\ song_idx = 2
    /\ song_sleep = 40
    /\ caller = "playing"

\* The steps in which the loop draws the screen: up to the temperature and
\* humidity, and from the weather on
Draws == loop_pc = "draw" /\ loop_pc' # "draw"
DrawsWeather == loop_pc = "weather" /\ loop_pc' # "weather"

\* C17 (SpecEnv): the drawing step can be taken whoever holds temp_hum_lock
\* or weather_lock.  On a tick that draws Main, when the poller holds the
\* lock the loop keeps the copy of an earlier tick, and when the lock is free
\* its copy becomes the shared value; on the other screens the copies are
\* left alone.  The copied (temperature, humidity) is always the initial
\* pair or a pair stored together by one update of the poller.
C17_NonBlockingReads ==
    /\ [](loop_pc = "draw" => ENABLED ReadClockAndDraw(now))
    /\ [](loop_pc = "weather" => ENABLED DrawWeather)
    /\ [](<<my_temp, my_hum>> \in written)
    /\ [][(Draws /\ state = MAIN)
            => IF temp_hum_lock_held
                 THEN UNCHANGED <<my_temp, my_hum>>
                 ELSE my_temp' = temp /\ my_hum' = hum]_vars
    /\ [][(DrawsWeather /\ state = MAIN)
            => IF weather_lock_held
                 THEN UNCHANGED my_weather
                 ELSE my_weather' = weather]_vars
    /\ [][((Draws \/ DrawsWeather) /\ state # MAIN)
            => UNCHANGED <<my_temp, my_hum, my_weather>>]_vars
    /\ [][<<my_temp, my_hum>>' # <<my_temp, my_hum>> => Draws]_vars
    /\ [][my_weather' # my_weather => DrawsWeather]_vars

\* The loop has drawn Main while update_dht held the lock between its two
\* stores: it shows the pair of the update before, the shared pair is torn
C17_Witness ==
    /\ loop_pc = "key"
    /\ state = MAIN
    /\ dht_pc = "half"
    /\ <<temp, hum>> = <<77, 40>>
    /\ <<my_temp, my_hum>> = <<68, 40>>
    /\ my_weather = Some(1)

\* C18 (SpecButton): after each poll just_pressed is true exactly when the
\* input line is active at this poll and was inactive at the poll before
\* (down holds the level each poll has read); so it is never true after two
\* consecutive polls, and a button that is held (active at this poll and at
\* the one before) is not just_pressed.
C18_JustPressedOnRisingEdge ==
    /\ [][\A b \in Buttons :
             /\ just_pressed'[b] <=> (down'[b] /\ ~down[b])
             /\ ~(just_pressed[b] /\ just_pressed'[b])
             /\ (down'[b] /\ down[b]) => ~just_pressed'[b]]_vars
    /\ [](\A b \in Buttons : just_pressed[b] => down[b])

\* select has just been pressed while right, pressed at an earlier poll, is
\* held and left is up
C18_Witness ==
    /\ just_pressed["select"]
    /\ down["right"] /\ ~just_pressed["right"]
    /\ ~down["left"]

\* C20 (SpecExit): once the exit key is read the loop terminates, waiting
\* for a live melody task only until it has ended; and when the loop has
\* terminated no melody task is alive, the main buzzer is silent, the
\* display has been sent display-off and its handles are closed.
C20_ExitTerminates ==
    /\ [](loop_pc = "join_exit" => <>(loop_pc = "exited"))
    /\ [](loop_pc = "exited"
            => /\ AliveMelodyTasks = 0
               /\ main_tone = None
               /\ disp_op = "close"
               /\ spi_out[1].bytes = <<174>>
               /\ ~disp_open)

\* C21 (SpecJoin): whenever the loop has called main_buzzer.stop() and waits
\* in song_thread.join() for a live melody task, the join eventually returns;
\* and the flag check the task makes while the loop waits finds the stop
\* request and ends the task.
C21_JoinReturns ==
    /\ [](loop_pc \in SongJoinPcs => <>(loop_pc \notin SongJoinPcs))
    /\ [][(loop_pc \in SongJoinPcs /\ song_pc \in {"note", "held"}
             /\ song_idx <= Len(melody) /\ song_pc' # song_pc)
            => song_pc' = "stopped"]_vars

\* The frames pushed in a sequence of display calls
IsFramePush(c) == c \in {"clear_screen", "write_image"}
FramePushes(calls) == SelectSeq(calls, IsFramePush)

\* A step in which the loop updates the display
Pushes == loop_pc = "push" /\ loop_pc' # "push"

\* C22 (SpecEdit): on every tick that updates the display exactly one frame
\* is pushed: a blank one (clear_screen, all bytes zero) exactly when the
\* menu state is Settings, the cursor is DisplayOff and in_select_mode is
\* true, and the composed one (write_image) in every other case; no other
\* step of the loop pushes a frame.
C22_BlankFrameWhenDisplayOff ==
    /\ [][Pushes
            => /\ FramePushes(tick_calls) = <<>>
               /\ FramePushes(tick_calls') =
                    <<IF state = SETTINGS /\ cursor = Settings_DISPLAY_OFF
                          /\ in_select_mode
                        THEN "clear_screen" ELSE "write_image">>
               /\ disp_op' = FramePushes(tick_calls')[1]]_vars
    /\ [][(Pushes /\ disp_op' = "clear_screen")
            => spi_out' = <<exec_data(bytes_of_size(WIDTH * PAGES))>>]_vars
    /\ [][(FramePushes(tick_calls') # FramePushes(tick_calls) /\ tick_calls' # <<>>)
            => Pushes]_vars
    /\ [](loop_pc \in {"alarm", "mark", "join_auto", "key"}
            => Len(FramePushes(tick_calls)) = 1)

\* A blank frame has been pushed on a tick with the DisplayOff row of
\* Settings selected
C22_Witness ==
    /\ loop_pc = "key"
    /\ state = SETTINGS
    /\ cursor = Settings_DISPLAY_OFF
    /\ in_select_mode
    /\ tick_calls = <<"clear_screen">>
    /\ disp_op = "clear_screen"

\* A display call is among the calls of a tick
Called(calls, name) == \E i \in 1..Len(calls) : calls[i] = name

\* A step in which the loop runs the screen-reset block
Resets == loop_pc = "reset" /\ loop_pc' # "reset"

\* C23 (SpecAuto): a tick calls display.reinitialize exactly when it is the
\* first tick of a wall-clock minute that is a multiple of
\* SCREEN_RESET_INTERVAL_MIN, so on no later tick of that minute, and before
\* the frame is pushed.  A tick that reinitializes finds has_reset_screen
\* false and sets it, and only a tick whose minute is not a multiple of the
\* interval clears it: such a tick lies between any two reinitialize calls.
C23_ResetOncePerBoundary ==
    /\ [][Resets
            => (Called(tick_calls', "reinitialize")
                  <=> (Minute(now) % 10 = 0 /\ first_of_minute))]_vars
    /\ [][(Resets /\ Called(tick_calls', "reinitialize"))
            => (~has_reset_screen /\ has_reset_screen'
                  /\ disp_op' = "reinitialize"
                  /\ FramePushes(tick_calls') = <<>>)]_vars
    /\ [][(Called(tick_calls', "reinitialize") /\ ~Called(tick_calls, "reinitialize"))
            => Resets]_vars
    /\ [][(has_reset_screen /\ ~has_reset_screen')
            => (Resets /\ Minute(now) % 10 # 0)]_vars
    /\ []((has_reset_screen /\ loop_pc \notin {"weather", "reset"})
            => (ticked /\ Minute(now) % 10 = 0))

\* The loop has reinitialized the screen on the first tick of 10:10, ten
\* minutes after the reset of 10:00
C23_Witness ==
    /\ loop_pc = "key"
    /\ TimeFields(now) = <<10, 10, "AM">>
    /\ tick_calls = <<"reinitialize", "write_image">>
    /\ has_reset_screen

\* C24 (SpecEdit): in every state button presses lead to, in_select_mode is
\* false whenever the menu state is Main and whenever the cursor of a
\* sub-screen is on Back; a step that changes the menu state finds
\* in_select_mode false and leaves it false.
C24_SelectModeOnlyOnEditableRows ==
    /\ [](state = MAIN => ~in_select_mode)
    /\ [](OnBack => ~in_select_mode)
    /\ [][state' # state => (~in_select_mode /\ ~in_select_mode')]_vars

\* After an edit of the alarm time, made in select mode, select mode has
\* been left and the cursor moved to Back
C24_Witness ==
    /\ state = SET_ALARM_TIME
    /\ cursor = AlarmTime_BACK
    /\ ~in_select_mode
    /\ edits >= 1
    /\ loop_pc = "left"

\* C25 (SpecArmed): at every tick boundary, if a melody task is alive then
\* the alarm is armed and the menu state is not SetAlarmTime.  A melody is
\* started only by the alarm block, with the alarm armed and the menu
\* outside SetAlarmTime; a disarming press while a melody is alive stops the
\* buzzer and joins the task; a select press while a melody is alive stops
\* and joins it and leaves the menu alone; no melody is alive while the menu
\* is in SetAlarmTime, and the alarm time changes only while none is alive.
C25_AliveMelodyMeansArmed ==
    /\ []((loop_pc = "enable" /\ AliveMelodyTasks > 0)
            => (alarm_active /\ state # SET_ALARM_TIME))
    /\ [](state = SET_ALARM_TIME => AliveMelodyTasks = 0)
    /\ [][StartsSong
            => (loop_pc = "alarm" /\ alarm_active /\ state # SET_ALARM_TIME)]_vars
    /\ [][(EnableHandler(TRUE) /\ alarm_active /\ SongAlive)
            => (~alarm_active' /\ main_stop' /\ main_tone' = None
                  /\ loop_pc' = "join_enable")]_vars
    /\ [][(SelectHandler(TRUE) /\ SongAlive)
            => (main_stop' /\ main_tone' = None /\ loop_pc' = "join_select"
                  /\ UNCHANGED menuVars)]_vars
    /\ [][(loop_pc \in {"join_enable", "join_select"} /\ loop_pc' # loop_pc)
            => ~SongAlive]_vars
    /\ [][alarm_time' # alarm_time => AliveMelodyTasks = 0]_vars

\* A melody plays at a tick boundary with the alarm armed, the cursor of
\* Main on SetAlarmTime: the select press that would enter the screen
\* dismisses the melody instead
C25_Witness ==
    /\ loop_pc = "enable"
    /\ song_pc = "held"
    /\ ~main_stop
    /\ alarm_active
    /\ state = MAIN
    /\ cursor = Main_SET_ALARM_TIME

====
